---- MODULE Spec2Model ----
(***************************************************************************)
(* Hotel booking system: repositories (dal/json_repository.py,             *)
(* tests/in_memory_repository.py) and the services of bll/services.py.     *)
(* Strings are sequences of one-character strings, dates are day ordinals. *)
(***************************************************************************)
EXTENDS Integers, Sequences, FiniteSets, TLC

\* ---------------------------------------------------------------- bounds
MaxBookings == 2
MaxDate == 3
MaxId == 3
MaxRecords == 2

VARIABLES hotels, rooms, clients, bookings, repoKind, last, issued, local

vars == <<hotels, rooms, clients, bookings, repoKind, last, issued, local>>

\* ------------------------------------------------------- bll/exceptions
OK == "ok"
NotFoundError == "NotFoundError"
ValidationError == "ValidationError"

\* ----------------------------------------------------------- bll/models
PENDING == "PENDING"
CONFIRMED == "CONFIRMED"
CANCELLED == "CANCELLED"

BookingStatusMembers == {PENDING, CONFIRMED, CANCELLED}

\* BookingStatus.value
StatusValue(s) ==
  CASE s = PENDING -> "pending"
    [] s = CONFIRMED -> "confirmed"
    [] s = CANCELLED -> "cancelled"

\* BookingStatus(value)
BookingStatus(v) == CHOOSE s \in BookingStatusMembers : StatusValue(s) = v

Hotel(id, name, city, address, description) ==
  [id |-> id, name |-> name, city |-> city, address |-> address,
   description |-> description]

Room(id, hotel_id, number, capacity, price_per_night) ==
  [id |-> id, hotel_id |-> hotel_id, number |-> number, capacity |-> capacity,
   price_per_night |-> price_per_night]

Client(id, first_name, last_name, phone, email) ==
  [id |-> id, first_name |-> first_name, last_name |-> last_name,
   phone |-> phone, email |-> email]

Booking(id, hotel_id, room_id, client_id, check_in, check_out, status, request_text) ==
  [id |-> id, hotel_id |-> hotel_id, room_id |-> room_id, client_id |-> client_id,
   check_in |-> check_in, check_out |-> check_out, status |-> status,
   request_text |-> request_text]

\* Faulty variant: the day of departure is counted as a night.
duration_days_inclusive(b) == b.check_out - b.check_in + 1

\* Booking.duration_days
duration_days(b) == b.check_out - b.check_in

\* ------------------------------------------------------ string helpers
RECURSIVE lstrip(_)
lstrip(s) == IF s # <<>> /\ Head(s) = " " THEN lstrip(Tail(s)) ELSE s

RECURSIVE rstrip(_)
rstrip(s) == IF s # <<>> /\ s[Len(s)] = " " THEN rstrip(SubSeq(s, 1, Len(s) - 1)) ELSE s

\* str.strip()
strip(s) == rstrip(lstrip(s))

\* --------------------------------------------- pl/app.py: (de)serialisers
\* date.isoformat(): the (year, month, day) fields of the text "2025-01-dd"
isoformat(d) == <<2025, 1, d>>

\* Faulty variant: the month is read where the day is.
fromisoformat_month(t) == t[2]

\* date.fromisoformat()
fromisoformat(t) == t[3]

HotelToDict(h) ==
  [id |-> h.id, name |-> h.name, city |-> h.city, address |-> h.address,
   description |-> h.description]

HotelFactory(d) == Hotel(d.id, d.name, d.city, d.address, d.description)

RoomToDict(r) ==
  [id |-> r.id, hotel_id |-> r.hotel_id, number |-> r.number,
   capacity |-> r.capacity, price_per_night |-> r.price_per_night]

RoomFactory(d) == Room(d.id, d.hotel_id, d.number, d.capacity, d.price_per_night)

ClientToDict(c) ==
  [id |-> c.id, first_name |-> c.first_name, last_name |-> c.last_name,
   phone |-> c.phone, email |-> c.email]

ClientFactory(d) == Client(d.id, d.first_name, d.last_name, d.phone, d.email)

BookingToDict(b) ==
  [id |-> b.id, hotel_id |-> b.hotel_id, room_id |-> b.room_id,
   client_id |-> b.client_id, check_in |-> isoformat(b.check_in),
   check_out |-> isoformat(b.check_out), status |-> StatusValue(b.status),
   request_text |-> b.request_text]

BookingFactory(d) ==
  Booking(d.id, d.hotel_id, d.room_id, d.client_id, fromisoformat(d.check_in),
          fromisoformat(d.check_out), BookingStatus(d.status), d.request_text)

\* ------------------------------------------------------------ repository
\* A store is the list the repository holds: the objects themselves for
\* InMemoryRepository, the dicts of the JSON file for JsonRepository.
RepoKinds == {"memory", "json"}

\* The factory and to_dict callables a JsonRepository[T] was built with.
factory(T, d) ==
  CASE T = "Hotel" -> HotelFactory(d)
    [] T = "Room" -> RoomFactory(d)
    [] T = "Client" -> ClientFactory(d)
    [] T = "Booking" -> BookingFactory(d)

to_dict(T, x) ==
  CASE T = "Hotel" -> HotelToDict(x)
    [] T = "Room" -> RoomToDict(x)
    [] T = "Client" -> ClientToDict(x)
    [] T = "Booking" -> BookingToDict(x)

get_all(kind, store, T) ==
  IF kind = "memory" THEN store
  ELSE [i \in 1..Len(store) |-> factory(T, store[i])]

save_all(kind, items, T) ==
  IF kind = "memory" THEN items
  ELSE [i \in 1..Len(items) |-> to_dict(T, items[i])]

\* Index of the first element of items whose id is id_, 0 when there is none.
FirstIndex(items, id_) ==
  IF \E i \in 1..Len(items) : items[i].id = id_
  THEN CHOOSE i \in 1..Len(items) :
         /\ items[i].id = id_
         /\ \A j \in 1..(i - 1) : items[j].id # id_
  ELSE 0

\* Optional[T] is a sequence of length 0 (None) or 1.
get_by_id(kind, store, T, id_) ==
  LET items == get_all(kind, store, T)
      i == FirstIndex(items, id_)
  IN IF i = 0 THEN <<>> ELSE <<items[i]>>

\* InMemoryRepository.get_by_id returns the stored object itself, so an
\* attribute assignment on it changes the store at once; JsonRepository
\* builds a fresh object and the store is untouched until save_all.
assign(kind, store, obj, new_obj) ==
  IF kind = "memory"
  THEN LET i == FirstIndex(store, obj.id)
       IN [store EXCEPT ![i] = new_obj]
  ELSE store

Ids(items) == {items[i].id : i \in 1..Len(items)}

Max(S) == CHOOSE x \in S : \A y \in S : y <= x

\* Faulty variant: the new id is the number of records plus one.
generate_id_by_count(items) == Len(items) + 1

\* BaseService._generate_id
generate_id(items) == IF items = <<>> THEN 1 ELSE Max(Ids(items)) + 1

\* for i, b in enumerate(items): if b.id == obj.id: items[i] = obj; break
replace_first(items, obj) ==
  LET i == FirstIndex(items, obj.id)
  IN IF i = 0 THEN items ELSE [items EXCEPT ![i] = obj]

\* Faulty variant: the records after the one with the id are dropped too.
RECURSIVE without_id_truncating(_, _)
without_id_truncating(items, id_) ==
  IF items = <<>> THEN <<>>
  ELSE IF Head(items).id # id_
       THEN <<Head(items)>> \o without_id_truncating(Tail(items), id_)
       ELSE <<>>

\* [x for x in items if x.id != id_]
RECURSIVE without_id(_, _)
without_id(items, id_) ==
  IF items = <<>> THEN <<>>
  ELSE IF Head(items).id # id_
       THEN <<Head(items)>> \o without_id(Tail(items), id_)
       ELSE without_id(Tail(items), id_)

\* ------------------------------------------------- views of the stores
AllHotels == get_all(repoKind, hotels, "Hotel")
AllRooms == get_all(repoKind, rooms, "Room")
AllClients == get_all(repoKind, clients, "Client")
AllBookings == get_all(repoKind, bookings, "Booking")

Result(op, args, outcome, msg, ret) ==
  [op |-> op, args |-> args, outcome |-> outcome, msg |-> msg, ret |-> ret]

\* The variable local holds what the callers of the services and of the
\* repositories keep in their local variables between two steps; it is
\* empty wherever an operation runs as one step.
NoLocals == <<>>

\* The ghost variable issued records every id a collection has handed out.
Issue(coll, items) == [issued EXCEPT ![coll] = @ \cup Ids(items)]

\* ----------------------------------------------------------- HotelService
add_hotel(name, city, address, description) ==
  LET args == <<name, city, address, description>>
      check == IF strip(name) = <<>> THEN "name"
               ELSE IF strip(city) = <<>> THEN "city"
               ELSE IF strip(address) = <<>> THEN "address"
               ELSE "none"
  IN IF check # "none"
     THEN /\ last' = Result("add_hotel", args, ValidationError, check, <<>>)
          /\ UNCHANGED <<hotels, rooms, clients, bookings, repoKind, issued, local>>
     ELSE LET new_id == generate_id(AllHotels)
              hotel == Hotel(new_id, strip(name), strip(city), strip(address),
                             strip(description))
              items == Append(AllHotels, hotel)
          IN /\ Len(AllHotels) < MaxRecords
             /\ new_id <= MaxId
             /\ hotels' = save_all(repoKind, items, "Hotel")
             /\ last' = Result("add_hotel", args, OK, "", <<hotel>>)
             /\ issued' = Issue("hotels", items)
             /\ UNCHANGED <<rooms, clients, bookings, repoKind, local>>

\* Faulty variant: the bookings of the deleted hotel are deleted with it.
delete_hotel_cascading(hotel_id) ==
  LET items == AllHotels
      new_items == without_id(items, hotel_id)
      all_bookings == get_all(repoKind, bookings, "Booking")
      kept == SelectSeq(all_bookings, LAMBDA b : b.hotel_id # hotel_id)
  IN IF Len(new_items) = Len(items)
     THEN /\ last' = Result("delete_hotel", <<hotel_id>>, NotFoundError, "hotel", <<>>)
          /\ UNCHANGED <<hotels, rooms, clients, bookings, repoKind, issued, local>>
     ELSE /\ hotels' = save_all(repoKind, new_items, "Hotel")
          /\ bookings' = save_all(repoKind, kept, "Booking")
          /\ last' = Result("delete_hotel", <<hotel_id>>, OK, "", <<>>)
          /\ UNCHANGED <<rooms, clients, repoKind, issued, local>>

delete_hotel(hotel_id) ==
  LET items == AllHotels
      new_items == without_id(items, hotel_id)
  IN IF Len(new_items) = Len(items)
     THEN /\ last' = Result("delete_hotel", <<hotel_id>>, NotFoundError, "hotel", <<>>)
          /\ UNCHANGED <<hotels, rooms, clients, bookings, repoKind, issued, local>>
     ELSE /\ hotels' = save_all(repoKind, new_items, "Hotel")
          /\ last' = Result("delete_hotel", <<hotel_id>>, OK, "", <<>>)
          /\ UNCHANGED <<rooms, clients, bookings, repoKind, issued, local>>

\* ---------------------------------------------------------- ClientService
add_client(first_name, last_name, phone, email) ==
  LET args == <<first_name, last_name, phone, email>>
      check == IF strip(first_name) = <<>> THEN "first_name"
               ELSE IF strip(last_name) = <<>> THEN "last_name"
               ELSE "none"
  IN IF check # "none"
     THEN /\ last' = Result("add_client", args, ValidationError, check, <<>>)
          /\ UNCHANGED <<hotels, rooms, clients, bookings, repoKind, issued, local>>
     ELSE LET new_id == generate_id(AllClients)
              client == Client(new_id, strip(first_name), strip(last_name),
                               strip(phone), strip(email))
              items == Append(AllClients, client)
          IN /\ Len(AllClients) < MaxRecords
             /\ new_id <= MaxId
             /\ clients' = save_all(repoKind, items, "Client")
             /\ last' = Result("add_client", args, OK, "", <<client>>)
             /\ issued' = Issue("clients", items)
             /\ UNCHANGED <<hotels, rooms, bookings, repoKind, local>>

delete_client(client_id) ==
  LET items == AllClients
      new_items == without_id(items, client_id)
  IN IF Len(new_items) = Len(items)
     THEN /\ last' = Result("delete_client", <<client_id>>, NotFoundError, "client", <<>>)
          /\ UNCHANGED <<hotels, rooms, clients, bookings, repoKind, issued, local>>
     ELSE /\ clients' = save_all(repoKind, new_items, "Client")
          /\ last' = Result("delete_client", <<client_id>>, OK, "", <<>>)
          /\ UNCHANGED <<hotels, rooms, bookings, repoKind, issued, local>>

\* update_client: an argument is <<>> for None and <<text>> otherwise. Each
\* step is [client, store, check]: the object in hand, the store after the
\* attribute assignments made so far, and the check that failed ("none").
update_first_name(client, store, first_name) ==
  IF first_name = <<>> THEN [client |-> client, store |-> store, check |-> "none"]
  ELSE IF strip(first_name[1]) = <<>>
  THEN [client |-> client, store |-> store, check |-> "first_name"]
  ELSE LET c == [client EXCEPT !.first_name = strip(first_name[1])]
       IN [client |-> c, store |-> assign(repoKind, store, client, c), check |-> "none"]

update_last_name(client, store, last_name) ==
  IF last_name = <<>> THEN [client |-> client, store |-> store, check |-> "none"]
  ELSE IF strip(last_name[1]) = <<>>
  THEN [client |-> client, store |-> store, check |-> "last_name"]
  ELSE LET c == [client EXCEPT !.last_name = strip(last_name[1])]
       IN [client |-> c, store |-> assign(repoKind, store, client, c), check |-> "none"]

update_contacts(client, store, phone, email) ==
  LET c1 == IF phone = <<>> THEN client ELSE [client EXCEPT !.phone = strip(phone[1])]
      c2 == IF email = <<>> THEN c1 ELSE [c1 EXCEPT !.email = strip(email[1])]
  IN [client |-> c2, store |-> assign(repoKind, store, client, c2), check |-> "none"]

update_client(client_id, first_name, last_name, phone, email) ==
  LET args == <<client_id, first_name, last_name, phone, email>>
      found == get_by_id(repoKind, clients, "Client", client_id)
  IN IF found = <<>>
     THEN /\ last' = Result("update_client", args, NotFoundError, "client", <<>>)
          /\ UNCHANGED <<hotels, rooms, clients, bookings, repoKind, issued, local>>
     ELSE LET s1 == update_first_name(found[1], clients, first_name)
              s2 == update_last_name(s1.client, s1.store, last_name)
              s3 == update_contacts(s2.client, s2.store, phone, email)
              items == get_all(repoKind, s3.store, "Client")
          IN /\ IF s1.check # "none"
                THEN /\ clients' = s1.store
                     /\ last' = Result("update_client", args, ValidationError, s1.check, <<>>)
                ELSE IF s2.check # "none"
                THEN /\ clients' = s2.store
                     /\ last' = Result("update_client", args, ValidationError, s2.check, <<>>)
                ELSE /\ clients' = save_all(repoKind, replace_first(items, s3.client), "Client")
                     /\ last' = Result("update_client", args, OK, "", <<s3.client>>)
             /\ UNCHANGED <<hotels, rooms, bookings, repoKind, issued, local>>

\* ord(ch) of the characters the model uses.
ord(ch) ==
  CASE ch = " " -> 32 [] ch = "1" -> 49 [] ch = "2" -> 50 [] ch = "7" -> 55
    [] ch = "A" -> 65 [] ch = "B" -> 66 [] ch = "H" -> 72 [] ch = "I" -> 73
    [] ch = "K" -> 75 [] ch = "P" -> 80
    [] ch = "a" -> 97 [] ch = "b" -> 98 [] ch = "h" -> 104 [] ch = "i" -> 105
    [] ch = "k" -> 107 [] ch = "p" -> 112

\* str.lower() for one character and for a string.
lower_char(ch) ==
  CASE ch = "A" -> "a" [] ch = "B" -> "b" [] ch = "H" -> "h" [] ch = "I" -> "i"
    [] ch = "K" -> "k" [] ch = "P" -> "p" [] OTHER -> ch

lower(text) == [i \in 1..Len(text) |-> lower_char(text[i])]

\* a < b for Python strings: by code point, a proper prefix comes first.
RECURSIVE str_lt(_, _)
str_lt(a, b) ==
  IF b = <<>> THEN FALSE
  ELSE IF a = <<>> THEN TRUE
  ELSE IF ord(Head(a)) # ord(Head(b)) THEN ord(Head(a)) < ord(Head(b))
  ELSE str_lt(Tail(a), Tail(b))

\* Faulty variant: the names are compared as they are written.
sort_key_cased(field, c) ==
  IF field = "first_name" THEN c.first_name ELSE c.last_name

\* key=lambda c: c.first_name.lower()  (resp. c.last_name.lower())
sort_key(field, c) ==
  lower(IF field = "first_name" THEN c.first_name ELSE c.last_name)

\* sorted(items, key=...): ascending by key, items with equal keys keep
\* their order (the sort is stable).
RECURSIVE insert_sorted(_, _, _)
insert_sorted(x, done, field) ==
  IF done = <<>> THEN <<x>>
  ELSE IF str_lt(sort_key(field, x), sort_key(field, Head(done)))
       THEN <<x>> \o done
       ELSE <<Head(done)>> \o insert_sorted(x, Tail(done), field)

RECURSIVE sorted(_, _, _)
sorted(items, done, field) ==
  IF items = <<>> THEN done
  ELSE sorted(Tail(items), insert_sorted(Head(items), done, field), field)

sort_clients_by_first_name ==
  LET items == sorted(AllClients, <<>>, "first_name")
  IN /\ clients' = save_all(repoKind, items, "Client")
     /\ last' = Result("sort_clients_by_first_name", <<>>, OK, "", items)
     /\ UNCHANGED <<hotels, rooms, bookings, repoKind, issued, local>>

sort_clients_by_last_name ==
  LET items == sorted(AllClients, <<>>, "last_name")
  IN /\ clients' = save_all(repoKind, items, "Client")
     /\ last' = Result("sort_clients_by_last_name", <<>>, OK, "", items)
     /\ UNCHANGED <<hotels, rooms, bookings, repoKind, issued, local>>

\* ------------------------------------------------ BookingService helpers
ensure_hotel_exists(hotel_id) == get_by_id(repoKind, hotels, "Hotel", hotel_id)
ensure_room_exists(room_id) == get_by_id(repoKind, rooms, "Room", room_id)
ensure_client_exists(client_id) == get_by_id(repoKind, clients, "Client", client_id)
find_by_id_or_raise(id_) == get_by_id(repoKind, bookings, "Booking", id_)

\* Faulty variant: the intervals are compared as closed ones.
overlaps_closed(b, start_date, end_date) ==
  b.check_in <= end_date /\ b.check_out >= start_date

\* The period test of _filter_bookings_by_period for one booking.
overlaps(b, start_date, end_date) ==
  b.check_in < end_date /\ b.check_out > start_date

\* Faulty variant: a window with start_date >= end_date selects nothing.
RECURSIVE filter_bookings_by_proper_period(_, _, _)
filter_bookings_by_proper_period(bs, start_date, end_date) ==
  IF bs = <<>> \/ start_date >= end_date THEN <<>>
  ELSE IF overlaps(Head(bs), start_date, end_date)
       THEN <<Head(bs)>> \o filter_bookings_by_proper_period(Tail(bs), start_date, end_date)
       ELSE filter_bookings_by_proper_period(Tail(bs), start_date, end_date)

RECURSIVE filter_bookings_by_period(_, _, _)
filter_bookings_by_period(bs, start_date, end_date) ==
  IF bs = <<>> THEN <<>>
  ELSE IF overlaps(Head(bs), start_date, end_date)
       THEN <<Head(bs)>> \o filter_bookings_by_period(Tail(bs), start_date, end_date)
       ELSE filter_bookings_by_period(Tail(bs), start_date, end_date)

\* Faulty variant: the status is not tested.
RECURSIVE of_hotel_any_status(_, _, _)
of_hotel_any_status(bs, hotel_id, status) ==
  IF bs = <<>> THEN <<>>
  ELSE IF Head(bs).hotel_id = hotel_id
       THEN <<Head(bs)>> \o of_hotel_any_status(Tail(bs), hotel_id, status)
       ELSE of_hotel_any_status(Tail(bs), hotel_id, status)

\* [b for b in all_bookings if b.hotel_id == hotel_id and b.status == status]
RECURSIVE of_hotel_with_status(_, _, _)
of_hotel_with_status(bs, hotel_id, status) ==
  IF bs = <<>> THEN <<>>
  ELSE IF Head(bs).hotel_id = hotel_id /\ Head(bs).status = status
       THEN <<Head(bs)>> \o of_hotel_with_status(Tail(bs), hotel_id, status)
       ELSE of_hotel_with_status(Tail(bs), hotel_id, status)

\* Faulty variant: the existence checks run before the date check.
add_request_check_dates_last(hotel_id, room_id, client_id, check_in, check_out) ==
  LET hotel == ensure_hotel_exists(hotel_id)
      room == ensure_room_exists(room_id)
      client == ensure_client_exists(client_id)
  IN IF hotel = <<>> THEN "hotel"
     ELSE IF room = <<>> THEN "room"
     ELSE IF client = <<>> THEN "client"
     ELSE IF check_in >= check_out THEN "dates"
     ELSE IF room[1].hotel_id # hotel[1].id THEN "match"
     ELSE "none"

\* Faulty variant: the dates are not validated.
add_request_check_no_dates(hotel_id, room_id, client_id, check_in, check_out) ==
  LET hotel == ensure_hotel_exists(hotel_id)
      room == ensure_room_exists(room_id)
      client == ensure_client_exists(client_id)
  IN IF hotel = <<>> THEN "hotel"
     ELSE IF room = <<>> THEN "room"
     ELSE IF client = <<>> THEN "client"
     ELSE IF room[1].hotel_id # hotel[1].id THEN "match"
     ELSE "none"

\* Faulty variant: the room may belong to another hotel.
add_request_check_no_match(hotel_id, room_id, client_id, check_in, check_out) ==
  LET hotel == ensure_hotel_exists(hotel_id)
      room == ensure_room_exists(room_id)
      client == ensure_client_exists(client_id)
  IN IF check_in >= check_out THEN "dates"
     ELSE IF hotel = <<>> THEN "hotel"
     ELSE IF room = <<>> THEN "room"
     ELSE IF client = <<>> THEN "client"
     ELSE "none"

\* The first precondition of add_request that fails, "none" when all hold.
add_request_check(hotel_id, room_id, client_id, check_in, check_out) ==
  LET hotel == ensure_hotel_exists(hotel_id)
      room == ensure_room_exists(room_id)
      client == ensure_client_exists(client_id)
  IN IF check_in >= check_out THEN "dates"
     ELSE IF hotel = <<>> THEN "hotel"
     ELSE IF room = <<>> THEN "room"
     ELSE IF client = <<>> THEN "client"
     ELSE IF room[1].hotel_id # hotel[1].id THEN "match"
     ELSE "none"

\* The exception class raised for a failed check.
ErrorOf(check) ==
  IF check \in {"dates", "match", "cancelled", "duration", "first_name", "last_name",
                "name", "city", "address"}
  THEN ValidationError ELSE NotFoundError

\* ------------------------------------------- BookingService operations
add_request(hotel_id, room_id, client_id, check_in, check_out, text) ==
  LET args == <<hotel_id, room_id, client_id, check_in, check_out, text>>
      check == add_request_check(hotel_id, room_id, client_id, check_in, check_out)
  IN IF check # "none"
     THEN /\ last' = Result("add_request", args, ErrorOf(check), check, <<>>)
          /\ UNCHANGED <<hotels, rooms, clients, bookings, repoKind, issued, local>>
     ELSE LET hotel == ensure_hotel_exists(hotel_id)[1]
              room == ensure_room_exists(room_id)[1]
              client == ensure_client_exists(client_id)[1]
              new_id == generate_id(AllBookings)
              booking == Booking(new_id, hotel.id, room.id, client.id, check_in,
                                 check_out, PENDING, strip(text))
              items == Append(AllBookings, booking)
          IN /\ Len(AllBookings) < MaxBookings
             /\ new_id <= MaxId
             /\ bookings' = save_all(repoKind, items, "Booking")
             /\ last' = Result("add_request", args, OK, "", <<booking>>)
             /\ issued' = Issue("bookings", items)
             /\ UNCHANGED <<hotels, rooms, clients, repoKind, local>>

delete_request(booking_id) ==
  LET items == AllBookings
      new_items == without_id(items, booking_id)
  IN IF Len(new_items) = Len(items)
     THEN /\ last' = Result("delete_request", <<booking_id>>, NotFoundError, "booking", <<>>)
          /\ UNCHANGED <<hotels, rooms, clients, bookings, repoKind, issued, local>>
     ELSE /\ bookings' = save_all(repoKind, new_items, "Booking")
          /\ last' = Result("delete_request", <<booking_id>>, OK, "", <<>>)
          /\ UNCHANGED <<hotels, rooms, clients, repoKind, issued, local>>

\* Faulty variant: the changed record is taken out and appended at the end.
write_back_moving_last(booking, changed) ==
  LET store == assign(repoKind, bookings, booking, changed)
      items == get_all(repoKind, store, "Booking")
  IN save_all(repoKind, Append(without_id(items, changed.id), changed), "Booking")

\* The tail shared by update_request_text, confirm_booking and cancel_booking:
\* the attribute assignment on the object get_by_id returned, then
\* get_all, replacement of the first element with that id, save_all.
write_back(booking, changed) ==
  LET store == assign(repoKind, bookings, booking, changed)
      items == get_all(repoKind, store, "Booking")
  IN save_all(repoKind, replace_first(items, changed), "Booking")

update_request_text(booking_id, new_text) ==
  LET found == find_by_id_or_raise(booking_id)
      args == <<booking_id, new_text>>
  IN IF found = <<>>
     THEN /\ last' = Result("update_request_text", args, NotFoundError, "booking", <<>>)
          /\ UNCHANGED <<hotels, rooms, clients, bookings, repoKind, issued, local>>
     ELSE LET changed == [found[1] EXCEPT !.request_text = strip(new_text)]
          IN /\ bookings' = write_back(found[1], changed)
             /\ last' = Result("update_request_text", args, OK, "", <<changed>>)
             /\ UNCHANGED <<hotels, rooms, clients, repoKind, issued, local>>

\* Faulty variant: confirming a Cancelled booking is let through.
confirm_check_any_status(found) ==
  IF found = <<>> THEN "booking" ELSE "none"

\* Faulty variant: only a Pending booking may be confirmed.
confirm_check_pending_only(found) ==
  IF found = <<>> THEN "booking"
  ELSE IF found[1].status # PENDING THEN "cancelled"
  ELSE "none"

\* Faulty variant: a booking is not confirmed while another Confirmed booking
\* of its room overlaps it.
confirm_check_no_conflict(found) ==
  IF found = <<>> THEN "booking"
  ELSE IF found[1].status = CANCELLED THEN "cancelled"
  ELSE IF \E i \in 1..Len(AllBookings) :
            /\ AllBookings[i].id # found[1].id
            /\ AllBookings[i].room_id = found[1].room_id
            /\ AllBookings[i].status = CONFIRMED
            /\ AllBookings[i].check_in < found[1].check_out
            /\ found[1].check_in < AllBookings[i].check_out
       THEN "dates"
  ELSE "none"

\* The failing check of confirm_booking, "none" when it goes through.
confirm_check(found) ==
  IF found = <<>> THEN "booking"
  ELSE IF found[1].status = CANCELLED THEN "cancelled"
  ELSE "none"

\* Faulty variant: a booking can be cancelled only once.
cancel_check_once(found) ==
  IF found = <<>> THEN "booking"
  ELSE IF found[1].status = CANCELLED THEN "cancelled"
  ELSE "none"

\* The failing check of cancel_booking, "none" when it goes through.
cancel_check(found) ==
  IF found = <<>> THEN "booking" ELSE "none"

\* Faulty variant: the status is assigned before the Cancelled test, which with the
\* in-memory repository changes the stored object although the call fails.
confirm_booking_assign_first(booking_id) ==
  LET found == find_by_id_or_raise(booking_id)
      check == confirm_check(found)
  IN IF check # "none"
     THEN /\ last' = Result("confirm_booking", <<booking_id>>, ErrorOf(check), check, <<>>)
          /\ bookings' = IF found = <<>> THEN bookings
                         ELSE assign(repoKind, bookings, found[1],
                                     [found[1] EXCEPT !.status = CONFIRMED])
          /\ UNCHANGED <<hotels, rooms, clients, repoKind, issued, local>>
     ELSE LET changed == [found[1] EXCEPT !.status = CONFIRMED]
          IN /\ bookings' = write_back(found[1], changed)
             /\ last' = Result("confirm_booking", <<booking_id>>, OK, "", <<changed>>)
             /\ UNCHANGED <<hotels, rooms, clients, repoKind, issued, local>>

confirm_booking(booking_id) ==
  LET found == find_by_id_or_raise(booking_id)
      check == confirm_check(found)
  IN IF check # "none"
     THEN /\ last' = Result("confirm_booking", <<booking_id>>, ErrorOf(check), check, <<>>)
          /\ UNCHANGED <<hotels, rooms, clients, bookings, repoKind, issued, local>>
     ELSE LET changed == [found[1] EXCEPT !.status = CONFIRMED]
          IN /\ bookings' = write_back(found[1], changed)
             /\ last' = Result("confirm_booking", <<booking_id>>, OK, "", <<changed>>)
             /\ UNCHANGED <<hotels, rooms, clients, repoKind, issued, local>>

cancel_booking(booking_id) ==
  LET found == find_by_id_or_raise(booking_id)
      check == cancel_check(found)
  IN IF check # "none"
     THEN /\ last' = Result("cancel_booking", <<booking_id>>, ErrorOf(check), check, <<>>)
          /\ UNCHANGED <<hotels, rooms, clients, bookings, repoKind, issued, local>>
     ELSE LET changed == [found[1] EXCEPT !.status = CANCELLED]
          IN /\ bookings' = write_back(found[1], changed)
             /\ last' = Result("cancel_booking", <<booking_id>>, OK, "", <<changed>>)
             /\ UNCHANGED <<hotels, rooms, clients, repoKind, issued, local>>

\* What get_requests_in_period raises or returns, given what its two
\* repository reads (_ensure_hotel_exists, _get_all) returned.
requests_in_period(hotel, all_bookings, hotel_id, start_date, end_date) ==
  IF hotel = <<>>
  THEN [outcome |-> NotFoundError, msg |-> "hotel", ret |-> <<>>]
  ELSE LET pending == of_hotel_with_status(all_bookings, hotel_id, PENDING)
       IN [outcome |-> OK, msg |-> "",
           ret |-> filter_bookings_by_period(pending, start_date, end_date)]

\* Faulty variant: the selected bookings are saved as the collection.
get_requests_in_period_saving(hotel_id, start_date, end_date) ==
  LET r == requests_in_period(ensure_hotel_exists(hotel_id), AllBookings,
                              hotel_id, start_date, end_date)
  IN /\ last' = Result("get_requests_in_period", <<hotel_id, start_date, end_date>>,
                       r.outcome, r.msg, r.ret)
     /\ bookings' = IF r.outcome = OK THEN save_all(repoKind, r.ret, "Booking")
                    ELSE bookings
     /\ UNCHANGED <<hotels, rooms, clients, repoKind, issued, local>>

get_requests_in_period(hotel_id, start_date, end_date) ==
  LET r == requests_in_period(ensure_hotel_exists(hotel_id), AllBookings,
                              hotel_id, start_date, end_date)
  IN /\ last' = Result("get_requests_in_period", <<hotel_id, start_date, end_date>>,
                       r.outcome, r.msg, r.ret)
     /\ UNCHANGED <<hotels, rooms, clients, bookings, repoKind, issued, local>>

get_booking(booking_id) ==
  LET found == find_by_id_or_raise(booking_id)
  IN /\ last' = IF found = <<>>
                THEN Result("get_booking", <<booking_id>>, NotFoundError, "booking", <<>>)
                ELSE Result("get_booking", <<booking_id>>, OK, "", found)
     /\ UNCHANGED <<hotels, rooms, clients, bookings, repoKind, issued, local>>

calculate_booking_price(booking_id) ==
  LET found == find_by_id_or_raise(booking_id)
      check == IF found = <<>> THEN "booking"
               ELSE IF ensure_room_exists(found[1].room_id) = <<>> THEN "room"
               ELSE IF duration_days(found[1]) <= 0 THEN "duration"
               ELSE "none"
  IN /\ IF check # "none"
        THEN last' = Result("calculate_booking_price", <<booking_id>>, ErrorOf(check), check, <<>>)
        ELSE LET room == ensure_room_exists(found[1].room_id)[1]
             IN last' = Result("calculate_booking_price", <<booking_id>>, OK, "",
                               <<room.price_per_night * duration_days(found[1])>>)
     /\ UNCHANGED <<hotels, rooms, clients, bookings, repoKind, issued, local>>

\* Faulty variant: a room's capacity is added only the first time it is seen.
reserve_room_once(acc, room) ==
  IF room.id \in acc.seen THEN acc
  ELSE [total |-> acc.total + room.capacity, rooms |-> Append(acc.rooms, room),
        seen |-> acc.seen \cup {room.id}, missing |-> acc.missing]

\* One pass of the loop of get_reserved_places for a resolved room:
\* total_places += room.capacity, and the room is appended when not yet seen.
reserve_room(acc, room) ==
  [total |-> acc.total + room.capacity,
   rooms |-> IF room.id \notin acc.seen THEN Append(acc.rooms, room) ELSE acc.rooms,
   seen |-> acc.seen \cup {room.id},
   missing |-> acc.missing]

\* Faulty variant: a booking whose room does not resolve is skipped.
RECURSIVE reserve_loop_skip_missing(_, _)
reserve_loop_skip_missing(bs, acc) ==
  IF bs = <<>> THEN acc
  ELSE LET room == ensure_room_exists(Head(bs).room_id)
       IN IF room = <<>> THEN reserve_loop_skip_missing(Tail(bs), acc)
          ELSE reserve_loop_skip_missing(Tail(bs), reserve_room(acc, room[1]))

\* for b in confirmed_in_period: a room that does not resolve raises
\* NotFoundError out of the loop (missing), the rest is not visited.
RECURSIVE reserve_loop(_, _)
reserve_loop(bs, acc) ==
  IF bs = <<>> THEN acc
  ELSE LET room == ensure_room_exists(Head(bs).room_id)
       IN IF room = <<>> THEN [acc EXCEPT !.missing = TRUE]
          ELSE reserve_loop(Tail(bs), reserve_room(acc, room[1]))

\* What get_reserved_places raises or returns, given what _ensure_hotel_exists
\* and _get_all returned; ret is the pair (total_places, reserved_rooms).
reserved_places(hotel, all_bookings, hotel_id, start_date, end_date) ==
  IF hotel = <<>>
  THEN [outcome |-> NotFoundError, msg |-> "hotel", ret |-> <<>>]
  ELSE LET confirmed == of_hotel_with_status(all_bookings, hotel_id, CONFIRMED)
           confirmed_in_period == filter_bookings_by_period(confirmed, start_date, end_date)
           acc == reserve_loop(confirmed_in_period,
                               [total |-> 0, rooms |-> <<>>, seen |-> {}, missing |-> FALSE])
       IN IF acc.missing
          THEN [outcome |-> NotFoundError, msg |-> "room", ret |-> <<>>]
          ELSE [outcome |-> OK, msg |-> "", ret |-> <<acc.total, acc.rooms>>]

get_reserved_places(hotel_id, start_date, end_date) ==
  LET r == reserved_places(ensure_hotel_exists(hotel_id), AllBookings,
                           hotel_id, start_date, end_date)
  IN /\ last' = Result("get_reserved_places", <<hotel_id, start_date, end_date>>,
                       r.outcome, r.msg, r.ret)
     /\ UNCHANGED <<hotels, rooms, clients, bookings, repoKind, issued, local>>

\* [r for r in self._room_repo.get_all() if r.hotel_id == hotel_id]
RECURSIVE rooms_of_hotel(_, _)
rooms_of_hotel(rs, hotel_id) ==
  IF rs = <<>> THEN <<>>
  ELSE IF Head(rs).hotel_id = hotel_id
       THEN <<Head(rs)>> \o rooms_of_hotel(Tail(rs), hotel_id)
       ELSE rooms_of_hotel(Tail(rs), hotel_id)

\* Faulty variant: the reserved rooms are not taken out.
RECURSIVE free_rooms_keep_reserved(_, _)
free_rooms_keep_reserved(rs, reserved_ids) ==
  IF rs = <<>> THEN <<>>
  ELSE <<Head(rs)>> \o free_rooms_keep_reserved(Tail(rs), reserved_ids)

\* [r for r in all_rooms if r.id not in reserved_ids]
RECURSIVE free_rooms(_, _)
free_rooms(rs, reserved_ids) ==
  IF rs = <<>> THEN <<>>
  ELSE IF Head(rs).id \notin reserved_ids
       THEN <<Head(rs)>> \o free_rooms(Tail(rs), reserved_ids)
       ELSE free_rooms(Tail(rs), reserved_ids)

\* sum(r.capacity for r in free_rooms)
RECURSIVE sum_capacity(_)
sum_capacity(rs) ==
  IF rs = <<>> THEN 0 ELSE Head(rs).capacity + sum_capacity(Tail(rs))

\* What get_free_places raises or returns, given what _ensure_hotel_exists,
\* room_repo.get_all and the inner get_reserved_places call returned.
free_places(hotel, all_room_records, reserved, hotel_id) ==
  IF hotel = <<>>
  THEN [outcome |-> NotFoundError, msg |-> "hotel", ret |-> <<>>]
  ELSE IF reserved.outcome # OK
  THEN [outcome |-> reserved.outcome, msg |-> reserved.msg, ret |-> <<>>]
  ELSE LET all_rooms == rooms_of_hotel(all_room_records, hotel_id)
           reserved_ids == Ids(reserved.ret[2])
           free == free_rooms(all_rooms, reserved_ids)
       IN [outcome |-> OK, msg |-> "", ret |-> <<sum_capacity(free), free>>]

get_free_places(hotel_id, start_date, end_date) ==
  LET hotel == ensure_hotel_exists(hotel_id)
      reserved == reserved_places(hotel, AllBookings, hotel_id, start_date, end_date)
      r == free_places(hotel, AllRooms, reserved, hotel_id)
  IN /\ last' = Result("get_free_places", <<hotel_id, start_date, end_date>>,
                       r.outcome, r.msg, r.ret)
     /\ UNCHANGED <<hotels, rooms, clients, bookings, repoKind, issued, local>>

\* for cid in client_ids: client = get_by_id(cid); appended when not None.
\* order lists the set client_ids in the order the iteration visits it.
RECURSIVE resolve_clients(_)
resolve_clients(order) ==
  IF order = <<>> THEN <<>>
  ELSE LET client == ensure_client_exists(Head(order))
       IN client \o resolve_clients(Tail(order))

\* {b.client_id for b in bookings}
client_ids_of(bs) == {bs[i].client_id : i \in 1..Len(bs)}

\* The orders in which a Python set of ids may be iterated.
IterationOrders(S) ==
  {o \in [1..Cardinality(S) -> S] : \A i, j \in 1..Cardinality(S) : i # j => o[i] # o[j]}

\* What get_clients_with_bookings raises or returns, given what
\* _ensure_hotel_exists and _get_all returned and the iteration order.
clients_with_bookings(hotel, all_bookings, hotel_id, order) ==
  IF hotel = <<>>
  THEN [outcome |-> NotFoundError, msg |-> "hotel", ret |-> <<>>]
  ELSE [outcome |-> OK, msg |-> "", ret |-> resolve_clients(order)]

get_clients_with_bookings(hotel_id) ==
  LET hotel == ensure_hotel_exists(hotel_id)
      all_bookings == AllBookings
      client_ids == client_ids_of(of_hotel_with_status(all_bookings, hotel_id, CONFIRMED))
  IN \E order \in IterationOrders(client_ids) :
       LET r == clients_with_bookings(hotel, all_bookings, hotel_id, order)
       IN /\ last' = Result("get_clients_with_bookings", <<hotel_id>>,
                            r.outcome, r.msg, r.ret)
          /\ UNCHANGED <<hotels, rooms, clients, bookings, repoKind, issued, local>>

\* room_repo.save_all(items): the room collection has no service, its
\* repository is written directly (as pl/app.py does to add a room).
room_repo_save_all(items) ==
  /\ rooms' = save_all(repoKind, items, "Room")
  /\ last' = Result("room_repo.save_all", <<items>>, OK, "", <<>>)
  /\ UNCHANGED <<hotels, clients, bookings, repoKind, issued, local>>

\* ------------------------------------------------------------ the data
Dates == 1..MaxDate
BookingIds == 1..(MaxId + 1)
Blank == <<" ">>
NoText == <<>>
SomeText == <<" ", "a", " ">>

InitialHotels == <<Hotel(1, <<"H">>, <<"K">>, <<"A">>, <<>>),
                   Hotel(2, <<"G">>, <<"K">>, <<"B">>, <<>>)>>

InitialRooms == <<Room(1, 1, <<"1">>, 2, 100), Room(2, 1, <<"2">>, 3, 150),
                  Room(3, 2, <<"1">>, 1, 80)>>

InitialClients == <<Client(1, <<"I">>, <<"P">>, <<"1">>, <<>>),
                    Client(2, <<"p">>, <<"I">>, <<"2">>, <<>>)>>

InitStores ==
  /\ repoKind \in RepoKinds
  /\ hotels = save_all(repoKind, InitialHotels, "Hotel")
  /\ rooms = save_all(repoKind, InitialRooms, "Room")
  /\ clients = save_all(repoKind, InitialClients, "Client")
  /\ bookings = <<>>
  /\ last = Result("init", <<>>, OK, "", <<>>)
  /\ issued = [bookings |-> {}, hotels |-> Ids(InitialHotels), clients |-> Ids(InitialClients)]
  /\ local = NoLocals

\* ------------------------------------- the booking lifecycle, one caller
\* Requests <<hotel_id, room_id, client_id, check_in, check_out>>: a valid one,
\* and for each precondition one that fails it together with later ones.
LifecycleRequests ==
  {<<2, 3, 1, 1, 2>>,
   <<3, 4, 3, 2, 2>>, <<1, 1, 1, 2, 1>>, <<3, 4, 3, 1, 2>>, <<1, 4, 3, 1, 2>>,
   <<1, 3, 3, 1, 2>>, <<1, 3, 1, 1, 2>>}

Init == InitStores

Next ==
  \/ \E a \in LifecycleRequests : add_request(a[1], a[2], a[3], a[4], a[5], NoText)
  \/ \E id \in BookingIds : delete_request(id)
  \/ \E id \in BookingIds : update_request_text(id, SomeText)
  \/ \E id \in BookingIds : confirm_booking(id)
  \/ \E id \in BookingIds : cancel_booking(id)
  \/ \E id \in BookingIds : calculate_booking_price(id)

Spec == Init /\ [][Next]_vars

\* ---------------------------------------------- claims on the lifecycle
StoredIds == Ids(AllBookings)

\* The stored booking with the given id (ids are distinct with one caller).
StoredIn(bs, id) == CHOOSE b \in {bs[i] : i \in 1..Len(bs)} : b.id = id

Stored(id) == StoredIn(AllBookings, id)

AllowedTransitions ==
  {<<s, s>> : s \in BookingStatusMembers}
    \cup {<<PENDING, CONFIRMED>>, <<PENDING, CANCELLED>>, <<CONFIRMED, CANCELLED>>}

\* C2: in every step, a booking stored before and after the step keeps its
\* status or moves Pending -> Confirmed, Pending -> Cancelled or
\* Confirmed -> Cancelled.
C2_StatusTransitions ==
  [][\A id \in StoredIds \cap StoredIds' :
       <<Stored(id).status, StoredIn(AllBookings', id).status>> \in AllowedTransitions]_vars

C2_Witness ==
  /\ last.op = "cancel_booking" /\ last.outcome = OK
  /\ \E i \in 1..Len(AllBookings) : AllBookings[i].status = CONFIRMED
  /\ \E i \in 1..Len(AllBookings) :
       AllBookings[i].id = last.args[1] /\ AllBookings[i].status = CANCELLED

\* C3: confirm_booking(id) fails with NotFoundError when id is not stored,
\* with ValidationError when the booking is Cancelled (which stays Cancelled),
\* and otherwise succeeds with stored and returned status Confirmed; on an
\* already Confirmed booking it leaves the stored collection as it was.
C3_Confirm ==
  [][last'.op = "confirm_booking" =>
       LET id == last'.args[1]
       IN IF id \notin StoredIds
          THEN last'.outcome = NotFoundError /\ AllBookings' = AllBookings
          ELSE IF Stored(id).status = CANCELLED
          THEN /\ last'.outcome = ValidationError
               /\ id \in StoredIds' /\ StoredIn(AllBookings', id).status = CANCELLED
          ELSE /\ last'.outcome = OK
               /\ last'.ret = <<StoredIn(AllBookings', id)>>
               /\ StoredIn(AllBookings', id).status = CONFIRMED
               /\ Stored(id).status = CONFIRMED =>
                    AllBookings' = AllBookings /\ bookings' = bookings]_vars

C3_Witness ==
  /\ last.op = "confirm_booking" /\ last.outcome = ValidationError
  /\ last.args[1] \in StoredIds /\ Stored(last.args[1]).status = CANCELLED
  /\ \E i \in 1..Len(AllBookings) : AllBookings[i].status = CONFIRMED

\* C4: cancel_booking(id) succeeds for every stored booking whatever its
\* status and leaves it Cancelled; it fails, with NotFoundError, only when
\* the id is not stored.
C4_Cancel ==
  [][last'.op = "cancel_booking" =>
       LET id == last'.args[1]
       IN IF id \in StoredIds
          THEN /\ last'.outcome = OK
               /\ id \in StoredIds' /\ StoredIn(AllBookings', id).status = CANCELLED
               /\ last'.ret = <<StoredIn(AllBookings', id)>>
          ELSE last'.outcome = NotFoundError]_vars

C4_Witness ==
  /\ last.op = "cancel_booking" /\ last.outcome = OK
  /\ Len(AllBookings) >= 2
  /\ \A i \in 1..Len(AllBookings) : AllBookings[i].status = CANCELLED

\* The domain the precondition order of add_request is checked over.
WideHotelIds == 1..3
WideRoomIds == 1..4
WideClientIds == 1..3

\* The check that decides a request, stated per precondition.
ExpectedCheck(h, r, c, ci, co) ==
  LET datesOk == ci < co
      hotelOk == h \in Ids(AllHotels)
      roomOk == r \in Ids(AllRooms)
      clientOk == c \in Ids(AllClients)
      matchOk == \A i \in 1..Len(AllRooms) : AllRooms[i].id = r => AllRooms[i].hotel_id = h
  IN CASE ~datesOk -> "dates"
       [] datesOk /\ ~hotelOk -> "hotel"
       [] datesOk /\ hotelOk /\ ~roomOk -> "room"
       [] datesOk /\ hotelOk /\ roomOk /\ ~clientOk -> "client"
       [] datesOk /\ hotelOk /\ roomOk /\ clientOk /\ ~matchOk -> "match"
       [] datesOk /\ hotelOk /\ roomOk /\ clientOk /\ matchOk -> "none"

ExpectedError(check) ==
  CASE check \in {"dates", "match"} -> ValidationError
    [] check \in {"hotel", "room", "client"} -> NotFoundError
    [] check = "none" -> OK

\* C6: add_request checks dates, hotel, room, client, room-hotel match in
\* that order and the first failing check decides the error: after an
\* add_request call, for every request the deciding check is the first that
\* fails, and the call ended with the error of that check.
C6_PreconditionOrder ==
  last.op = "add_request" =>
    /\ \A h \in WideHotelIds, r \in WideRoomIds, c \in WideClientIds, ci \in Dates, co \in Dates :
         add_request_check(h, r, c, ci, co) = ExpectedCheck(h, r, c, ci, co)
    /\ LET check == ExpectedCheck(last.args[1], last.args[2], last.args[3],
                                  last.args[4], last.args[5])
       IN /\ last.outcome = ExpectedError(check)
          /\ last.outcome # OK => last.msg = check

C6_Witness ==
  /\ last.op = "add_request" /\ last.outcome = ValidationError /\ last.msg = "dates"
  /\ last.args[1] \notin Ids(AllHotels)
  /\ last.args[2] \notin Ids(AllRooms)
  /\ last.args[3] \notin Ids(AllClients)

\* C7: a BookingService operation that fails leaves the stored booking
\* collection exactly as it was.
C7_FailureLeavesBookings ==
  [][last'.outcome # OK => AllBookings' = AllBookings /\ bookings' = bookings]_vars

C7_Witness ==
  /\ last.op = "add_request" /\ last.outcome = ValidationError /\ last.msg = "match"
  /\ Len(AllBookings) >= 2
  /\ \E i \in 1..Len(AllBookings) : AllBookings[i].status = CANCELLED

\* r is t without its leading and trailing spaces.
Trimmed(t, r) ==
  /\ r = <<>> \/ (r[1] # " " /\ r[Len(r)] # " ")
  /\ \E i \in 0..Len(t) :
       /\ i + Len(r) <= Len(t)
       /\ r = SubSeq(t, i + 1, i + Len(r))
       /\ \A k \in (1..i) \cup ((i + Len(r) + 1)..Len(t)) : t[k] = " "

\* C17: update_request_text(id, text) on a stored booking, whatever its
\* status, replaces only request_text, by the trimmed text: the other fields
\* of the booking, its position and every other booking are unchanged; with
\* an id that is not stored it fails with NotFoundError.
C17_UpdateText ==
  [][last'.op = "update_request_text" =>
       LET id == last'.args[1]
           before == AllBookings
           after == AllBookings'
       IN IF id \in StoredIds
          THEN /\ last'.outcome = OK
               /\ Len(after) = Len(before)
               /\ \A i \in 1..Len(before) :
                    IF before[i].id = id
                    THEN /\ Trimmed(last'.args[2], after[i].request_text)
                         /\ after[i] = [before[i] EXCEPT !.request_text = after[i].request_text]
                    ELSE after[i] = before[i]
          ELSE last'.outcome = NotFoundError /\ after = before]_vars

C17_Witness ==
  /\ last.op = "update_request_text" /\ last.outcome = OK
  /\ Len(AllBookings) = 2
  /\ AllBookings[1].id = last.args[1]
  /\ AllBookings[1].status = CANCELLED /\ AllBookings[1].request_text = <<"a">>
  /\ AllBookings[2].status = CONFIRMED /\ AllBookings[2].request_text = <<>>

\* ------------------------------------------- adding and deleting requests
AddRequests == {<<1, 1, 1, 1, 2>>, <<1, 2, 2, 1, MaxDate>>, <<2, 3, 1, 2, MaxDate>>}

NextAdd ==
  \/ \E a \in AddRequests, t \in {NoText, SomeText} :
       add_request(a[1], a[2], a[3], a[4], a[5], t)
  \/ \E id \in BookingIds : delete_request(id)

SpecAdd == InitStores /\ [][NextAdd]_vars

\* C5: a successful add_request appends exactly one booking to the stored
\* ones, which are unchanged and keep their order; its id is 1 + the largest
\* stored id (1 when none is stored), its status Pending and its hotel,
\* room, client and dates are the arguments.
C5_AddRequest ==
  [][last'.op = "add_request" /\ last'.outcome = OK =>
       LET b == last'.ret[1]
           a == last'.args
       IN /\ AllBookings' = Append(AllBookings, b)
          /\ (b.id - 1) \in (StoredIds \cup {0})
          /\ \A j \in StoredIds : j < b.id
          /\ b.status = PENDING
          /\ <<b.hotel_id, b.room_id, b.client_id, b.check_in, b.check_out>>
               = <<a[1], a[2], a[3], a[4], a[5]>>]_vars

C5_Witness ==
  /\ last.op = "add_request" /\ last.outcome = OK
  /\ Len(AllBookings) = 2
  /\ AllBookings[1].id = 2
  /\ AllBookings[2] = last.ret[1]
  /\ AllBookings[2].id = 3 /\ AllBookings[2].hotel_id = 2

\* --------------------------------------- identifiers of the three services
InitIds ==
  /\ repoKind \in RepoKinds
  /\ hotels = save_all(repoKind, <<InitialHotels[1]>>, "Hotel")
  /\ rooms = save_all(repoKind, InitialRooms, "Room")
  /\ clients = save_all(repoKind, <<InitialClients[1]>>, "Client")
  /\ bookings = <<>>
  /\ last = Result("init", <<>>, OK, "", <<>>)
  /\ issued = [bookings |-> {}, hotels |-> {1}, clients |-> {1}]
  /\ local = NoLocals

NextIds ==
  \/ add_request(1, 1, 1, 1, 2, NoText)
  \/ \E id \in StoredIds : delete_request(id)
  \/ add_hotel(<<"H">>, <<"K">>, <<" ", "A">>, <<>>)
  \/ \E id \in Ids(AllHotels) : delete_hotel(id)
  \/ add_client(<<"I">>, <<"P", " ">>, <<>>, <<>>)
  \/ \E id \in Ids(AllClients) : delete_client(id)

SpecIds == InitIds /\ [][NextIds]_vars

\* The collection an add operation appends to, with its stored ids.
AddedTo(op) ==
  CASE op = "add_request" -> "bookings"
    [] op = "add_hotel" -> "hotels"
    [] op = "add_client" -> "clients"

IdsOf(coll) ==
  CASE coll = "bookings" -> Ids(AllBookings)
    [] coll = "hotels" -> Ids(AllHotels)
    [] coll = "clients" -> Ids(AllClients)

AddOps == {"add_request", "add_hotel", "add_client"}

\* C9 as stated: an id a collection has once assigned is never assigned to a
\* record created later.
C9_NoReuse ==
  [][last'.op \in AddOps /\ last'.outcome = OK =>
       last'.ret[1].id \notin issued[AddedTo(last'.op)]]_vars

\* C9 amended: the id given to a new record is greater than every id stored
\* in its collection at that time (ids of deleted records are not excluded).
C9_NewIdAboveStored ==
  [][last'.op \in AddOps /\ last'.outcome = OK =>
       \A j \in IdsOf(AddedTo(last'.op)) : last'.ret[1].id > j]_vars

C9_Witness ==
  /\ last.op = "add_request" /\ last.outcome = OK
  /\ StoredIds = {2, 3} /\ last.ret[1].id = 3
  /\ issued.bookings = {1, 2, 3}

\* ------------------------------------------------- requests of a period
NextQuery ==
  \/ \E a \in {<<1, 1>>, <<2, 3>>}, ci \in Dates :
       \E co \in (ci + 1)..MaxDate : add_request(a[1], a[2], 1, ci, co, NoText)
  \/ \E id \in StoredIds : confirm_booking(id)
  \/ \E id \in StoredIds : cancel_booking(id)
  \/ \E h \in {1, 3} : get_requests_in_period(h, 2, 3)

\* The application's wiring: JSON repositories (pl/app.py get_services).
InitQuery == InitStores /\ repoKind = "json"

SpecQuery == InitQuery /\ [][NextQuery]_vars

\* The bookings of all that get_requests_in_period is to return, in order.
ExpectedRequests(all, h, s, e) ==
  LET Wanted(b) == /\ b.hotel_id = h
                   /\ b.status = PENDING
                   /\ b.check_in < e /\ b.check_out > s
  IN SelectSeq(all, Wanted)

\* C10: for an existing hotel get_requests_in_period returns exactly the
\* stored Pending bookings of that hotel whose interval overlaps the window,
\* in storage order; for an unknown hotel it fails with NotFoundError. It is
\* stated for the call just made and, in the state it ran in, for every
\* hotel id and window.
C10_RequestsInPeriod ==
  last.op = "get_requests_in_period" =>
    LET all == AllBookings
        hotelIds == Ids(AllHotels)
        found == [h \in WideHotelIds |-> ensure_hotel_exists(h)]
    IN /\ \A h \in WideHotelIds, s \in Dates, e \in Dates :
            LET r == requests_in_period(found[h], all, h, s, e)
            IN IF h \in hotelIds
               THEN r.outcome = OK /\ r.ret = ExpectedRequests(all, h, s, e)
               ELSE r.outcome = NotFoundError
       /\ IF last.args[1] \in hotelIds
          THEN /\ last.outcome = OK
               /\ last.ret = ExpectedRequests(all, last.args[1], last.args[2], last.args[3])
          ELSE last.outcome = NotFoundError

C10_Witness ==
  /\ last.op = "get_requests_in_period" /\ last.outcome = OK
  /\ Len(last.ret) = 1
  /\ \E i \in 1..Len(AllBookings) :
       /\ AllBookings[i].hotel_id = last.args[1]
       /\ AllBookings[i].status = CONFIRMED
       /\ AllBookings[i].check_in < last.args[3]
       /\ AllBookings[i].check_out > last.args[2]

\* ------------------------------------------------------ the period filter
Intervals == {<<ci, co>> \in Dates \X Dates : ci < co}

\* Booking lists of at most MaxBookings Pending bookings with ids 1..n.
FilterInputs ==
  UNION {{[i \in 1..n |-> Booking(i, 1, 1, 1, f[i][1], f[i][2], PENDING, <<>>)] :
           f \in [1..n -> Intervals]} : n \in 0..MaxBookings}

InitFilter ==
  /\ repoKind = "memory"
  /\ hotels = InitialHotels
  /\ rooms = InitialRooms
  /\ clients = InitialClients
  /\ bookings \in FilterInputs
  /\ \E s \in Dates, e \in Dates : last = Result("window", <<s, e>>, OK, "", <<>>)
  /\ issued = [bookings |-> Ids(bookings), hotels |-> Ids(InitialHotels),
               clients |-> Ids(InitialClients)]
  /\ local = NoLocals

apply_filter_bookings_by_period ==
  /\ last.op = "window"
  /\ last' = Result("filter_bookings_by_period", last.args, OK, "",
                    filter_bookings_by_period(AllBookings, last.args[1], last.args[2]))
  /\ UNCHANGED <<hotels, rooms, clients, bookings, repoKind, issued, local>>

NextFilter == apply_filter_bookings_by_period

SpecFilter == InitFilter /\ [][NextFilter]_vars

InSeq(x, seq) == \E i \in 1..Len(seq) : seq[i] = x

\* C1: the period filter returns a booking iff check_in < end and
\* check_out > start: not when its check_out is the window start or its
\* check_in the window end, and, for a window start < end, exactly when the
\* booking and the window share a night.
C1_PeriodFilter ==
  last.op = "filter_bookings_by_period" =>
    LET s == last.args[1]
        e == last.args[2]
        Overlapping(b) == b.check_in < e /\ b.check_out > s
    IN /\ last.ret = SelectSeq(AllBookings, Overlapping)
       /\ \A i \in 1..Len(AllBookings) :
            LET b == AllBookings[i]
            IN /\ (b.check_out = s \/ b.check_in = e) => ~InSeq(b, last.ret)
               /\ s < e =>
                    (InSeq(b, last.ret) <=>
                       \E d \in Dates : /\ b.check_in <= d /\ d < b.check_out
                                        /\ s <= d /\ d < e)

C1_Witness ==
  /\ last.op = "filter_bookings_by_period"
  /\ Len(AllBookings) = 2 /\ Len(last.ret) = 1
  /\ \E i \in 1..Len(AllBookings) :
       AllBookings[i].check_out = last.args[1] /\ ~InSeq(AllBookings[i], last.ret)

\* --------------------------------------------------------- client updates
NameArgs == {<<>>, <<<<"B", " ">>>>, <<Blank>>}
PhoneArgs == {<<>>, <<<<" ", "7">>>>}

NextClient ==
  \E id \in 1..3, fn \in NameArgs, ln \in NameArgs, ph \in PhoneArgs :
    update_client(id, fn, ln, ph, <<>>)

SpecClient == InitStores /\ [][NextClient]_vars

\* C8: an update_client call that fails with ValidationError leaves the
\* stored clients unchanged, with either repository.
C8_FailedUpdateLeavesClient ==
  [][last'.op = "update_client" /\ last'.outcome = ValidationError =>
       AllClients' = AllClients]_vars

\* ------------------------------------------- reserved and free places
\* Requests <<hotel_id, room_id, client_id, check_in, check_out>>: two stays
\* in room 1, one in room 2 of the same hotel, one in the other hotel.
PlacesRequests ==
  {<<1, 1, 1, 1, 2>>, <<1, 1, 1, 2, MaxDate>>, <<1, 2, 2, 1, MaxDate>>, <<2, 3, 1, 1, 2>>}

NextPlaces ==
  \/ \E a \in PlacesRequests : add_request(a[1], a[2], a[3], a[4], a[5], NoText)
  \/ \E id \in StoredIds : confirm_booking(id)
  \/ \E id \in StoredIds : cancel_booking(id)
  \/ \E r \in {1} : room_repo_save_all(without_id(AllRooms, r))
  \/ \E h \in {1, 3} : get_reserved_places(h, 2, MaxDate)
  \/ \E h \in {1, 3} : get_free_places(h, 2, MaxDate)

SpecPlaces == InitQuery /\ [][NextPlaces]_vars

\* The Confirmed bookings of hotel h overlapping [s, e), in storage order.
ConfirmedInWindow(all, h, s, e) ==
  LET Wanted(b) == /\ b.hotel_id = h
                   /\ b.status = CONFIRMED
                   /\ b.check_in < e /\ b.check_out > s
  IN SelectSeq(all, Wanted)

\* The stored room with the given id (room ids are distinct).
RoomById(id) == CHOOSE r \in {AllRooms[i] : i \in 1..Len(AllRooms)} : r.id = id

AllResolve(W) == \A i \in 1..Len(W) : W[i].room_id \in Ids(AllRooms)

RECURSIVE CapacityPerBooking(_)
CapacityPerBooking(W) ==
  IF W = <<>> THEN 0 ELSE RoomById(Head(W).room_id).capacity + CapacityPerBooking(Tail(W))

FirstAt(W, room_id) ==
  CHOOSE i \in 1..Len(W) :
    W[i].room_id = room_id /\ \A j \in 1..(i - 1) : W[j].room_id # room_id

\* r is what get_reserved_places is to give for hotel h and window [s, e)
\* when the hotel exists and every room of a counted booking resolves.
ReservedAsClaimed(r, all, h, s, e) ==
  LET W == ConfirmedInWindow(all, h, s, e)
  IN (h \in Ids(AllHotels) /\ AllResolve(W)) =>
       /\ r.outcome = OK
       /\ r.ret[1] = CapacityPerBooking(W)
       /\ LET L == r.ret[2]
          IN /\ {L[k].id : k \in 1..Len(L)} = {W[i].room_id : i \in 1..Len(W)}
             /\ \A k \in 1..Len(L) : L[k] = RoomById(L[k].id)
             /\ \A k \in 1..Len(L), l \in 1..Len(L) :
                  k < l => /\ L[k].id # L[l].id
                           /\ FirstAt(W, L[k].id) < FirstAt(W, L[l].id)

\* C11: for an existing hotel get_reserved_places returns as total the sum
\* of room.capacity taken once per Confirmed booking of the hotel overlapping
\* the window (a room with two such bookings counts twice) and as room list
\* each such booking's room once, in order of first occurrence; Pending and
\* Cancelled bookings contribute nothing. Stated for the call just made and,
\* in the state it ran in, for every hotel id and window.
C11_ReservedPlaces ==
  last.op = "get_reserved_places" =>
    LET all == AllBookings
        found == [h \in WideHotelIds |-> ensure_hotel_exists(h)]
    IN /\ \A h \in WideHotelIds, s \in Dates, e \in Dates :
            ReservedAsClaimed(reserved_places(found[h], all, h, s, e), all, h, s, e)
       /\ ReservedAsClaimed(last, all, last.args[1], last.args[2], last.args[3])

C11_Witness ==
  /\ last.op = "get_reserved_places" /\ last.outcome = OK
  /\ last.ret[1] = 4 /\ Len(last.ret[2]) = 1 /\ last.ret[2][1].id = 1
  /\ \E i \in 1..Len(AllBookings) : AllBookings[i].status = CONFIRMED

\* r is what get_free_places is to give for hotel h, given the result of
\* get_reserved_places for the same arguments.
FreeAsClaimed(r, reserved, h) ==
  (h \in Ids(AllHotels) /\ reserved.outcome = OK) =>
    LET Free(room) == room.hotel_id = h /\ room.id \notin Ids(reserved.ret[2])
        F == SelectSeq(AllRooms, Free)
    IN /\ r.outcome = OK
       /\ r.ret[2] = F
       /\ r.ret[1] = CapacityPerBooking([k \in 1..Len(F) |-> [room_id |-> F[k].id]])

\* C12: for an existing hotel get_free_places returns exactly the rooms of
\* the hotel whose id is not in the room list of get_reserved_places for the
\* same arguments, in room storage order, and as total the sum of their
\* capacities, each room counted once.
C12_FreePlaces ==
  last.op = "get_free_places" =>
    LET all == AllBookings
        found == [h \in WideHotelIds |-> ensure_hotel_exists(h)]
    IN /\ \A h \in WideHotelIds, s \in Dates, e \in Dates :
            LET reserved == reserved_places(found[h], all, h, s, e)
            IN FreeAsClaimed(free_places(found[h], AllRooms, reserved, h), reserved, h)
       /\ FreeAsClaimed(last, reserved_places(found[last.args[1]], all, last.args[1],
                                              last.args[2], last.args[3]),
                        last.args[1])

C12_Witness ==
  /\ last.op = "get_free_places" /\ last.outcome = OK
  /\ last.ret[1] = 3 /\ Len(last.ret[2]) = 1 /\ last.ret[2][1].id = 2
  /\ Len(AllRooms) = 3
  /\ Len(AllBookings) = 2
  /\ \A i \in 1..Len(AllBookings) :
       AllBookings[i].room_id = 1 /\ AllBookings[i].status = CONFIRMED
                                  /\ AllBookings[i].check_out > 2

\* r is the outcome claimed for a query on an existing hotel h: NotFoundError
\* exactly when a counted booking's room is not stored.
MissingRoomAsClaimed(r, all, h, s, e) ==
  h \in Ids(AllHotels) =>
    IF AllResolve(ConfirmedInWindow(all, h, s, e))
    THEN r.outcome = OK
    ELSE r.outcome = NotFoundError /\ r.msg = "room"

\* C13: when a Confirmed booking of the hotel overlapping the window refers
\* to a room that is not stored, get_reserved_places and get_free_places
\* fail with NotFoundError; a missing room referred to only by Pending,
\* Cancelled or non-overlapping bookings does not make them fail.
C13_MissingRoom ==
  last.op \in {"get_reserved_places", "get_free_places"} =>
    LET all == AllBookings
        found == [h \in WideHotelIds |-> ensure_hotel_exists(h)]
    IN /\ \A h \in WideHotelIds, s \in Dates, e \in Dates :
            LET reserved == reserved_places(found[h], all, h, s, e)
            IN /\ MissingRoomAsClaimed(reserved, all, h, s, e)
               /\ MissingRoomAsClaimed(free_places(found[h], AllRooms, reserved, h),
                                       all, h, s, e)
       /\ MissingRoomAsClaimed(last, all, last.args[1], last.args[2], last.args[3])

C13_Witness ==
  /\ last.op = "get_free_places" /\ last.outcome = NotFoundError /\ last.msg = "room"
  /\ 1 \notin Ids(AllRooms)
  /\ \E i \in 1..Len(AllBookings) :
       AllBookings[i].room_id = 1 /\ AllBookings[i].status = CONFIRMED
  /\ \E i \in 1..Len(AllBookings) :
       AllBookings[i].room_id = 2 /\ AllBookings[i].status = CONFIRMED

\* ------------------------------------------------ clients with bookings
\* Requests <<hotel_id, room_id, client_id>> for the night 1..2.
GuestRequests == {<<1, 1, 1>>, <<1, 1, 2>>, <<2, 3, 1>>, <<2, 3, 2>>}

NextGuests ==
  \/ \E a \in GuestRequests : add_request(a[1], a[2], a[3], 1, 2, NoText)
  \/ \E id \in StoredIds : confirm_booking(id)
  \/ \E id \in StoredIds : cancel_booking(id)
  \/ \E c \in {2} : delete_client(c)
  \/ \E h \in {1, 3} : get_clients_with_bookings(h)

SpecGuests == InitStores /\ [][NextGuests]_vars

\* The stored clients with at least one Confirmed booking at hotel h.
ConfirmedGuests(h) ==
  {c \in {AllClients[i] : i \in 1..Len(AllClients)} :
     \E i \in 1..Len(AllBookings) :
       /\ AllBookings[i].hotel_id = h
       /\ AllBookings[i].status = CONFIRMED
       /\ AllBookings[i].client_id = c.id}

\* C14: for an existing hotel get_clients_with_bookings returns each stored
\* client with at least one Confirmed booking at that hotel exactly once and
\* no other client; a client id that does not resolve is skipped and the
\* query does not fail.
C14_ClientsWithBookings ==
  last.op = "get_clients_with_bookings" /\ last.args[1] \in Ids(AllHotels) =>
    /\ last.outcome = OK
    /\ {last.ret[k] : k \in 1..Len(last.ret)} = ConfirmedGuests(last.args[1])
    /\ Len(last.ret) = Cardinality(ConfirmedGuests(last.args[1]))

C14_Witness ==
  /\ last.op = "get_clients_with_bookings" /\ last.outcome = OK
  /\ Len(last.ret) = 1 /\ last.ret[1].id = 1
  /\ 2 \notin Ids(AllClients)
  /\ Len(AllBookings) = 2
  /\ \A i \in 1..Len(AllBookings) :
       AllBookings[i].hotel_id = 1 /\ AllBookings[i].status = CONFIRMED
  /\ \E i \in 1..Len(AllBookings) : AllBookings[i].client_id = 2

\* ------------------------------------------------- the price of a booking
\* The booking collection as loaded from storage: empty, or one record with
\* id 1 whose dates, status and room are whatever the file holds (the room
\* with id 4 is not stored). Bookings with a larger id come from add_request.
PreloadedIds == {1}

PriceInputs ==
  {<<>>} \cup {<<Booking(1, 1, r, 1, ci, co, st, <<>>)>> :
                 r \in {1, 4}, ci \in Dates, co \in Dates, st \in BookingStatusMembers}

InitPrice ==
  /\ repoKind \in RepoKinds
  /\ hotels = save_all(repoKind, InitialHotels, "Hotel")
  /\ rooms = save_all(repoKind, InitialRooms, "Room")
  /\ clients = save_all(repoKind, InitialClients, "Client")
  /\ \E bs \in PriceInputs : bookings = save_all(repoKind, bs, "Booking")
  /\ last = Result("init", <<>>, OK, "", <<>>)
  /\ issued = [bookings |-> Ids(AllBookings), hotels |-> Ids(InitialHotels),
               clients |-> Ids(InitialClients)]
  /\ local = NoLocals

PriceRequests == {<<1, 1, 1, 1, 2>>, <<1, 2, 1, 1, MaxDate>>}

NextPrice ==
  \/ \E a \in PriceRequests : add_request(a[1], a[2], a[3], a[4], a[5], NoText)
  \/ \E id \in StoredIds : confirm_booking(id)
  \/ \E id \in StoredIds : cancel_booking(id)
  \/ \E id \in BookingIds : calculate_booking_price(id)

SpecPrice == InitPrice /\ [][NextPrice]_vars

\* C15: calculate_booking_price(id) returns (check_out - check_in) times the
\* price_per_night of the booking's room whatever the status; it fails with
\* NotFoundError when the booking or its room is not stored and with
\* ValidationError when the stored duration is <= 0; a booking created
\* through add_request has a duration > 0, so for it that error does not occur.
C15_Price ==
  /\ \A i \in 1..Len(AllBookings) :
       AllBookings[i].id \notin PreloadedIds =>
         AllBookings[i].check_out - AllBookings[i].check_in > 0
  /\ last.op = "calculate_booking_price" =>
       LET id == last.args[1]
       IN IF id \notin StoredIds \/ Stored(id).room_id \notin Ids(AllRooms)
          THEN last.outcome = NotFoundError
          ELSE IF Stored(id).check_out - Stored(id).check_in <= 0
          THEN last.outcome = ValidationError /\ id \in PreloadedIds
          ELSE /\ last.outcome = OK
               /\ last.ret = <<(Stored(id).check_out - Stored(id).check_in)
                                 * RoomById(Stored(id).room_id).price_per_night>>

C15_Witness ==
  /\ last.op = "calculate_booking_price" /\ last.outcome = OK
  /\ last.ret = <<(MaxDate - 1) * 150>>
  /\ Stored(last.args[1]).status = CANCELLED
  /\ last.args[1] \notin PreloadedIds
  /\ \E i \in 1..Len(AllBookings) :
       AllBookings[i].check_out <= AllBookings[i].check_in

\* ------------------------------------------------------------- deletions
\* Stored booking collections with ids 1..n in any statuses, one more than
\* MaxBookings so that a record between two others can be deleted.
DeleteInputs ==
  UNION {{[i \in 1..n |-> Booking(i, 1, 1, 1, 1, 2, st[i], <<>>)] :
           st \in [1..n -> BookingStatusMembers]} : n \in 0..(MaxBookings + 1)}

InitDelete ==
  /\ repoKind \in RepoKinds
  /\ hotels = save_all(repoKind, InitialHotels, "Hotel")
  /\ rooms = save_all(repoKind, InitialRooms, "Room")
  /\ clients = save_all(repoKind, InitialClients, "Client")
  /\ \E bs \in DeleteInputs : bookings = save_all(repoKind, bs, "Booking")
  /\ last = Result("init", <<>>, OK, "", <<>>)
  /\ issued = [bookings |-> Ids(AllBookings), hotels |-> Ids(InitialHotels),
               clients |-> Ids(InitialClients)]
  /\ local = NoLocals

NextDelete ==
  \/ \E id \in BookingIds : delete_request(id)
  \/ \E id \in 1..3 : delete_hotel(id)
  \/ \E id \in 1..3 : delete_client(id)

SpecDelete == InitDelete /\ [][NextDelete]_vars

\* A delete of id on a collection that went from before to after: when id is
\* stored, exactly the records with another id remain, as they were and in
\* their order; otherwise NotFoundError and the collection is as it was.
DeletedAsClaimed(before, after, id, outcome) ==
  LET Other(x) == x.id # id
  IN IF id \in Ids(before)
     THEN outcome = OK /\ after = SelectSeq(before, Other) /\ Len(after) = Len(before) - 1
     ELSE outcome = NotFoundError /\ after = before

\* C16: delete_request (for a booking in any status), delete_hotel and
\* delete_client with a stored id remove the record with that id and nothing
\* else, the remaining records unchanged and in their order; with an id that
\* is not stored they fail with NotFoundError and change nothing.
C16_Delete ==
  [][/\ last'.op = "delete_request" =>
          /\ DeletedAsClaimed(AllBookings, AllBookings', last'.args[1], last'.outcome)
          /\ UNCHANGED <<hotels, rooms, clients>>
     /\ last'.op = "delete_hotel" =>
          /\ DeletedAsClaimed(AllHotels, AllHotels', last'.args[1], last'.outcome)
          /\ UNCHANGED <<rooms, clients, bookings>>
     /\ last'.op = "delete_client" =>
          /\ DeletedAsClaimed(AllClients, AllClients', last'.args[1], last'.outcome)
          /\ UNCHANGED <<hotels, rooms, bookings>>]_vars

C16_Witness ==
  /\ last.op = "delete_request" /\ last.outcome = OK /\ last.args[1] = 2
  /\ Len(AllBookings) = 2
  /\ AllBookings[1].id = 1 /\ AllBookings[1].status = CONFIRMED
  /\ AllBookings[2].id = 3 /\ AllBookings[2].status = CANCELLED
  /\ Ids(AllHotels) = {2}

\* -------------------------------------------- the repository on its own
\* A caller of the booking repository. It keeps one list, local.items: the
\* list it built and saved, or the list get_all returned. local.shared are
\* the ids of the objects of that list that are the stored objects themselves
\* (InMemoryRepository keeps and hands out the objects it was given;
\* JsonRepository builds new ones on every read). local.saved records the
\* argument of the most recent save_all, initially that of the constructor.
SharedWith(items) == IF repoKind = "memory" THEN Ids(items) ELSE {}

repo_save_all(items) ==
  /\ bookings' = save_all(repoKind, items, "Booking")
  /\ local' = [items |-> items, shared |-> SharedWith(items), saved |-> items]
  /\ last' = Result("save_all", <<>>, OK, "", <<>>)
  /\ UNCHANGED <<hotels, rooms, clients, repoKind, issued>>

repo_get_all ==
  LET items == get_all(repoKind, bookings, "Booking")
  IN /\ local' = [local EXCEPT !.items = items, !.shared = SharedWith(items)]
     /\ last' = Result("get_all", <<>>, OK, "", items)
     /\ UNCHANGED <<hotels, rooms, clients, bookings, repoKind, issued>>

repo_get_by_id(id_) ==
  /\ last' = Result("get_by_id", <<id_>>, OK, "", get_by_id(repoKind, bookings, "Booking", id_))
  /\ UNCHANGED <<hotels, rooms, clients, bookings, repoKind, issued, local>>

\* Lists of at most MaxBookings bookings with ids 1 and 2, an id may repeat.
RepoRecords ==
  {Booking(id, 1, 1, 1, id, MaxDate, st, <<>>) : id \in 1..2, st \in BookingStatusMembers}

RepoInputs == UNION {[1..n -> RepoRecords] : n \in 0..MaxBookings}

InitRepo ==
  /\ repoKind \in RepoKinds
  /\ hotels = save_all(repoKind, InitialHotels, "Hotel")
  /\ rooms = save_all(repoKind, InitialRooms, "Room")
  /\ clients = save_all(repoKind, InitialClients, "Client")
  /\ \E bs \in RepoInputs :
       /\ bookings = save_all(repoKind, bs, "Booking")
       /\ local = [items |-> <<>>, shared |-> {}, saved |-> bs]
  /\ last = Result("init", <<>>, OK, "", <<>>)
  /\ issued = [bookings |-> Ids(AllBookings), hotels |-> Ids(InitialHotels),
               clients |-> Ids(InitialClients)]

NextRepo ==
  \/ \E items \in RepoInputs : repo_save_all(items)
  \/ repo_get_all
  \/ \E id \in 1..3 : repo_get_by_id(id)

SpecRepo == InitRepo /\ [][NextRepo]_vars

\* C19: the stored collection is the argument of the most recent save_all:
\* every get_all returns that list, same records in the same order (so two
\* get_all calls with no save_all between them return equal lists), and
\* get_by_id(id) returns its first record with that id, or the absent value
\* and no error when it has none.
C19_StoredIsLastSaved ==
  /\ get_all(repoKind, bookings, "Booking") = local.saved
  /\ last.op = "get_all" => last.outcome = OK /\ last.ret = local.saved
  /\ last.op = "get_by_id" =>
       /\ last.outcome = OK
       /\ LET saved == local.saved
              At == {i \in 1..Len(saved) : saved[i].id = last.args[1]}
          IN IF At = {} THEN last.ret = <<>>
             ELSE \E i \in At : /\ \A j \in At : i <= j
                                /\ last.ret = <<saved[i]>>

C19_Witness ==
  /\ last.op = "get_by_id" /\ last.args[1] = 2 /\ repoKind = "json"
  /\ Len(local.saved) = 2
  /\ local.saved[1].id = 2 /\ local.saved[2].id = 2
  /\ local.saved[1].status = CONFIRMED /\ local.saved[2].status = CANCELLED
  /\ last.ret = <<local.saved[1]>>
  /\ local.items = local.saved

\* --------------------------------------- a caller changing what it was given
\* items.append(booking)
items_append(booking) ==
  /\ Len(local.items) < MaxBookings
  /\ booking.id \notin Ids(local.items) \cup Ids(AllBookings)
  /\ local' = [local EXCEPT !.items = Append(@, booking)]
  /\ last' = Result("items.append", <<booking.id>>, OK, "", <<>>)
  /\ UNCHANGED <<hotels, rooms, clients, bookings, repoKind, issued>>

\* del items[i]
items_remove(i) ==
  /\ i \in 1..Len(local.items)
  /\ local' = [local EXCEPT
                 !.items = SubSeq(@, 1, i - 1) \o SubSeq(@, i + 1, Len(@)),
                 !.shared = @ \ {local.items[i].id}]
  /\ last' = Result("del items[i]", <<i>>, OK, "", <<>>)
  /\ UNCHANGED <<hotels, rooms, clients, bookings, repoKind, issued>>

\* items[i].status = status: an attribute assignment on an object of the
\* list; when the object is the stored one, the store has the new value.
items_set_status(i, status) ==
  /\ i \in 1..Len(local.items)
  /\ LET obj == local.items[i]
         new_obj == [obj EXCEPT !.status = status]
     IN /\ local' = [local EXCEPT !.items[i] = new_obj]
        /\ bookings' = IF obj.id \in local.shared
                       THEN assign(repoKind, bookings, obj, new_obj)
                       ELSE bookings
  /\ last' = Result("items[i].status =", <<i, status>>, OK, "", <<>>)
  /\ UNCHANGED <<hotels, rooms, clients, repoKind, issued>>

\* Stored collections with distinct ids 1..n.
CopyInputs ==
  UNION {{[i \in 1..n |-> Booking(i, 1, 1, 1, 1, 2, st[i], <<>>)] :
           st \in [1..n -> BookingStatusMembers]} : n \in 0..MaxBookings}

InitCopy ==
  /\ repoKind \in RepoKinds
  /\ hotels = save_all(repoKind, InitialHotels, "Hotel")
  /\ rooms = save_all(repoKind, InitialRooms, "Room")
  /\ clients = save_all(repoKind, InitialClients, "Client")
  /\ \E bs \in CopyInputs :
       /\ bookings = save_all(repoKind, bs, "Booking")
       /\ local = [items |-> <<>>, shared |-> {}, saved |-> bs]
  /\ last = Result("init", <<>>, OK, "", <<>>)
  /\ issued = [bookings |-> Ids(AllBookings), hotels |-> Ids(InitialHotels),
               clients |-> Ids(InitialClients)]

NextCopy ==
  \/ repo_get_all
  \/ \E id \in 1..3 : repo_get_by_id(id)
  \/ \E id \in 1..MaxId : items_append(Booking(id, 1, 1, 1, 1, 2, PENDING, <<>>))
  \/ \E i \in 1..MaxBookings : items_remove(i)
  \/ \E i \in 1..MaxBookings : items_set_status(i, CANCELLED)
  \/ repo_save_all(local.items)

SpecCopy == InitCopy /\ [][NextCopy]_vars

CallerChanges == {"items.append", "del items[i]", "items[i].status ="}

\* C18 as stated: appending to, removing from, or changing a field of a
\* record of the list get_all returned leaves what get_all and get_by_id
\* return as it was, with either repository.
C18_GetAllReturnsCopy ==
  [][last'.op \in CallerChanges =>
       /\ get_all(repoKind, bookings, "Booking")' = get_all(repoKind, bookings, "Booking")
       /\ \A id \in 1..MaxId :
            get_by_id(repoKind, bookings, "Booking", id)'
              = get_by_id(repoKind, bookings, "Booking", id)]_vars

\* ------------------------------------------- two callers, step by step
\* Two callers run one mutating operation each on the booking collection;
\* a step is one call of the booking repository with the code up to the next
\* one. local.call[c] holds caller c's operation, position and local
\* variables (new_id, booking as obj, items); local.done lists the callers in
\* the order of their save_all; local.clean says that no caller has read the
\* booking repository after a save_all.
Callers == 1..2

FieldOps == {"update_request_text", "confirm_booking", "cancel_booking"}

RaceOps(c) ==
  IF c = 1
  THEN {<<"add_request", <<1, 1, 1, 1, 2, NoText>>>>, <<"delete_request", <<1>>>>,
        <<"confirm_booking", <<1>>>>, <<"update_request_text", <<1, SomeText>>>>}
  ELSE {<<"add_request", <<1, 2, 2, 1, 2, NoText>>>>, <<"delete_request", <<2>>>>,
        <<"cancel_booking", <<2>>>>, <<"cancel_booking", <<1>>>>,
        <<"update_request_text", <<2, SomeText>>>>}

RaceBookings ==
  <<Booking(1, 2, 3, 1, 1, 2, PENDING, <<>>), Booking(2, 2, 3, 2, 1, 2, PENDING, <<>>)>>

StartOf(o) ==
  [op |-> o[1], args |-> o[2], pc |-> "start", new_id |-> 0, obj |-> <<>>,
   items |-> <<>>, outcome |-> "running"]

InitRace ==
  /\ repoKind \in RepoKinds
  /\ hotels = save_all(repoKind, InitialHotels, "Hotel")
  /\ rooms = save_all(repoKind, InitialRooms, "Room")
  /\ clients = save_all(repoKind, InitialClients, "Client")
  /\ bookings = save_all(repoKind, RaceBookings, "Booking")
  /\ last = Result("init", <<>>, OK, "", <<>>)
  /\ issued = [bookings |-> Ids(RaceBookings), hotels |-> Ids(InitialHotels),
               clients |-> Ids(InitialClients)]
  /\ \E o1 \in RaceOps(1), o2 \in RaceOps(2) :
       local = [call |-> <<StartOf(o1), StartOf(o2)>>, done |-> <<>>, clean |-> TRUE]

Call(c) == local.call[c]

\* Caller c has read the booking repository and goes on as rec.
AfterRead(c, rec) ==
  [call |-> [local.call EXCEPT ![c] = rec], done |-> local.done,
   clean |-> local.clean /\ local.done = <<>>]

\* Caller c's operation raised the exception of the failed check.
Raised(c, check) ==
  /\ local' = AfterRead(c, [Call(c) EXCEPT !.pc = "done", !.outcome = ErrorOf(check)])
  /\ last' = Result(Call(c).op, Call(c).args, ErrorOf(check), check, <<>>)

\* With InMemoryRepository every list and variable refers to the stored
\* objects themselves (preloaded ids are never given to a new object here),
\* so an attribute assignment shows in all of them; with JsonRepository each
\* read built its own objects.
aliased(rec, changed) ==
  IF repoKind = "memory"
  THEN [rec EXCEPT
          !.items = [i \in 1..Len(@) |-> IF @[i].id = changed.id THEN changed ELSE @[i]],
          !.obj = IF @ # <<>> /\ @[1].id = changed.id THEN <<changed>> ELSE @]
  ELSE rec

\* add_request up to new_id = self._generate_id()
race_generate_id(c) ==
  /\ Call(c).op = "add_request" /\ Call(c).pc = "start"
  /\ LET a == Call(c).args
         check == add_request_check(a[1], a[2], a[3], a[4], a[5])
     IN IF check # "none"
        THEN Raised(c, check)
        ELSE /\ local' = AfterRead(c, [Call(c) EXCEPT !.pc = "get_all",
                                                     !.new_id = generate_id(AllBookings)])
             /\ UNCHANGED last
  /\ UNCHANGED <<hotels, rooms, clients, bookings, repoKind, issued>>

\* Faulty variant: the id is computed again from the list just read.
race_add_get_all_fresh_id(c) ==
  /\ Call(c).op = "add_request" /\ Call(c).pc = "get_all"
  /\ LET a == Call(c).args
         booking == Booking(generate_id(AllBookings), a[1], a[2], a[3],
                            a[4], a[5], PENDING, strip(a[6]))
     IN local' = AfterRead(c, [Call(c) EXCEPT !.pc = "save_all", !.obj = <<booking>>,
                                              !.new_id = booking.id,
                                              !.items = Append(AllBookings, booking)])
  /\ UNCHANGED <<hotels, rooms, clients, bookings, repoKind, issued, last>>

\* booking = Booking(...); items = self._get_all(); items.append(booking)
race_add_get_all(c) ==
  /\ Call(c).op = "add_request" /\ Call(c).pc = "get_all"
  /\ LET a == Call(c).args
         booking == Booking(Call(c).new_id, ensure_hotel_exists(a[1])[1].id,
                            ensure_room_exists(a[2])[1].id, ensure_client_exists(a[3])[1].id,
                            a[4], a[5], PENDING, strip(a[6]))
     IN local' = AfterRead(c, [Call(c) EXCEPT !.pc = "save_all", !.obj = <<booking>>,
                                              !.items = Append(AllBookings, booking)])
  /\ UNCHANGED <<hotels, rooms, clients, bookings, repoKind, issued, last>>

\* delete_request up to the length test
race_delete_get_all(c) ==
  /\ Call(c).op = "delete_request" /\ Call(c).pc = "start"
  /\ LET items == AllBookings
         new_items == without_id(items, Call(c).args[1])
     IN IF Len(new_items) = Len(items)
        THEN Raised(c, "booking")
        ELSE /\ local' = AfterRead(c, [Call(c) EXCEPT !.pc = "save_all", !.items = new_items])
             /\ UNCHANGED last
  /\ UNCHANGED <<hotels, rooms, clients, bookings, repoKind, issued>>

\* update_request_text, confirm_booking, cancel_booking up to the attribute
\* assignment on the booking _find_by_id_or_raise returned
race_find(c) ==
  /\ Call(c).op \in FieldOps /\ Call(c).pc = "start"
  /\ LET found == find_by_id_or_raise(Call(c).args[1])
         check == IF Call(c).op = "confirm_booking" THEN confirm_check(found)
                  ELSE cancel_check(found)
     IN IF check # "none"
        THEN Raised(c, check) /\ UNCHANGED bookings
        ELSE LET changed ==
                   CASE Call(c).op = "update_request_text" ->
                          [found[1] EXCEPT !.request_text = strip(Call(c).args[2])]
                     [] Call(c).op = "confirm_booking" -> [found[1] EXCEPT !.status = CONFIRMED]
                     [] Call(c).op = "cancel_booking" -> [found[1] EXCEPT !.status = CANCELLED]
                 mine == [Call(c) EXCEPT !.pc = "get_all", !.obj = <<changed>>]
                 after == AfterRead(c, mine)
             IN /\ bookings' = assign(repoKind, bookings, found[1], changed)
                /\ local' = [after EXCEPT !.call = [d \in Callers |-> aliased(@[d], changed)]]
                /\ UNCHANGED last
  /\ UNCHANGED <<hotels, rooms, clients, repoKind, issued>>

\* items = self._get_all(); for i, b in enumerate(items): ... items[i] = booking
race_write_back_get_all(c) ==
  /\ Call(c).op \in FieldOps /\ Call(c).pc = "get_all"
  /\ local' = AfterRead(c, [Call(c) EXCEPT
                              !.pc = "save_all",
                              !.items = replace_first(AllBookings, Call(c).obj[1])])
  /\ UNCHANGED <<hotels, rooms, clients, bookings, repoKind, issued, last>>

\* self._save_all(items); return
race_save_all(c) ==
  /\ Call(c).pc = "save_all"
  /\ bookings' = save_all(repoKind, Call(c).items, "Booking")
  /\ local' = [call |-> [local.call EXCEPT ![c] = [@ EXCEPT !.pc = "done", !.outcome = OK]],
               done |-> Append(local.done, c), clean |-> local.clean]
  /\ last' = Result(Call(c).op, Call(c).args, OK, "",
                    IF Call(c).op = "delete_request" THEN <<>> ELSE Call(c).obj)
  /\ UNCHANGED <<hotels, rooms, clients, repoKind, issued>>

NextRace ==
  \/ \E c \in Callers : race_generate_id(c)
  \/ \E c \in Callers : race_add_get_all(c)
  \/ \E c \in Callers : race_delete_get_all(c)
  \/ \E c \in Callers : race_find(c)
  \/ \E c \in Callers : race_write_back_get_all(c)
  \/ \E c \in Callers : race_save_all(c)

SpecRace == InitRace /\ [][NextRace]_vars

\* The change caller c's operation makes is in the stored collection.
ChangePresent(c) ==
  LET id == Call(c).args[1]
  IN CASE Call(c).op = "add_request" ->
            \E i \in 1..Len(AllBookings) : AllBookings[i].room_id = Call(c).args[2]
       [] Call(c).op = "delete_request" -> id \notin StoredIds
       [] Call(c).op = "confirm_booking" ->
            id \in StoredIds /\ Stored(id).status = CONFIRMED
       [] Call(c).op = "cancel_booking" ->
            id \in StoredIds /\ Stored(id).status = CANCELLED
       [] Call(c).op = "update_request_text" ->
            id \in StoredIds /\ Stored(id).request_text = <<"a">>

\* Both operations returned successfully and every read of the booking
\* repository came before the first save_all.
BothReadThenWrote ==
  /\ Len(local.done) = 2
  /\ local.clean
  /\ \A c \in Callers : Call(c).outcome = OK

\* The later save_all won: the stored collection is the list the later
\* caller saved, and the earlier caller's change is not in it.
EarlierChangeLost ==
  /\ AllBookings = Call(local.done[2]).items
  /\ ChangePresent(local.done[2])
  /\ ~ChangePresent(local.done[1])

\* C20 as stated: when two callers mutating the booking collection both read
\* before either writes, the later save_all wins and the earlier caller's
\* change is absent from the stored collection although its operation
\* returned successfully, with either repository.
C20_LostUpdate == BothReadThenWrote => EarlierChangeLost

\* With JsonRepository, which the application is wired with, it is so.
LostUpdateJson == (repoKind = "json" /\ BothReadThenWrote) => EarlierChangeLost

C20_Witness ==
  /\ repoKind = "json" /\ BothReadThenWrote /\ EarlierChangeLost
  /\ local.done = <<1, 2>>
  /\ Call(1).op = "confirm_booking" /\ Call(2).op = "add_request"
  /\ Len(AllBookings) = 3 /\ AllBookings[1].status = PENDING

\* Two stored bookings have the same id.
DuplicateIds(bs) == \E i, j \in 1..Len(bs) : i # j /\ bs[i].id = bs[j].id

Generated(c) == Call(c).op = "add_request" /\ Call(c).new_id # 0

\* C21: add_request reads the collection once for the new id and a second
\* time for the list it saves: the id is 1 + the largest id stored at the
\* first read and the booking appended to the list of the second read carries
\* it; so two callers that both computed their id before either saved have
\* the same id, and whenever the stored collection holds two bookings with
\* the same id, they are those of two add_request calls with that id.
C21_SameIdTwice ==
  [][/\ \A c \in Callers :
          /\ (Call(c).op = "add_request" /\ Call(c).pc = "start" /\ local'.call[c].pc = "get_all")
               => /\ local'.call[c].new_id \notin StoredIds
                  /\ \A id \in StoredIds : id < local'.call[c].new_id
          /\ (Call(c).op = "add_request" /\ Call(c).pc = "get_all" /\ local'.call[c].pc = "save_all")
               => /\ local'.call[c].new_id = Call(c).new_id
                  /\ Len(local'.call[c].items) = Len(AllBookings) + 1
                  /\ SubSeq(local'.call[c].items, 1, Len(AllBookings)) = AllBookings
                  /\ local'.call[c].items[Len(AllBookings) + 1].id = Call(c).new_id
     /\ (local'.done = <<>> /\ \A c \in Callers : Generated(c)')
          => local'.call[1].new_id = local'.call[2].new_id
     /\ DuplicateIds(AllBookings')
          => /\ \A c \in Callers : Generated(c)'
             /\ local'.call[1].new_id = local'.call[2].new_id
             /\ \A c \in Callers :
                  \E i \in 1..Len(AllBookings') : AllBookings'[i] = local'.call[c].obj[1]]_vars

C21_Witness ==
  /\ DuplicateIds(AllBookings)
  /\ Len(local.done) = 2
  /\ \A c \in Callers : Call(c).op = "add_request" /\ Call(c).outcome = OK
  /\ Len(AllBookings) = 4
  /\ AllBookings[3].id = 3 /\ AllBookings[4].id = 3
  /\ AllBookings[3].room_id # AllBookings[4].room_id

\* ------------------------------------------- deletions do not cascade
NextOrphan ==
  \/ add_request(1, 1, 1, 1, 2, NoText)
  \/ \E h \in {1} : delete_hotel(h)
  \/ \E c \in {1} : delete_client(c)
  \/ \E id \in StoredIds : confirm_booking(id)
  \/ \E id \in StoredIds : cancel_booking(id)
  \/ \E id \in StoredIds : update_request_text(id, SomeText)
  \/ \E id \in StoredIds : delete_request(id)
  \/ get_requests_in_period(1, 1, 2)
  \/ get_reserved_places(1, 1, 2)
  \/ get_free_places(1, 1, 2)
  \/ get_clients_with_bookings(1)

SpecOrphan == InitStores /\ [][NextOrphan]_vars

\* The booking refers to a hotel or to a client that is not stored.
Orphan(b) == b.hotel_id \notin Ids(AllHotels) \/ b.client_id \notin Ids(AllClients)

HotelScopedQueries ==
  {"get_requests_in_period", "get_reserved_places", "get_free_places",
   "get_clients_with_bookings"}

\* C22: delete_hotel and delete_client leave the stored bookings as they
\* are; a stored booking is confirmed (unless Cancelled), cancelled, edited
\* and deleted by its id whether or not its hotel and client are still
\* stored; a hotel-scoped query for an id that is not a stored hotel fails
\* with NotFoundError.
C22_NoCascade ==
  [][/\ last'.op \in {"delete_hotel", "delete_client"} => bookings' = bookings
     /\ (last'.op \in {"cancel_booking", "update_request_text", "delete_request"}
           /\ last'.args[1] \in StoredIds)
          => last'.outcome = OK
     /\ (last'.op = "confirm_booking" /\ last'.args[1] \in StoredIds)
          => (last'.outcome = OK <=> Stored(last'.args[1]).status # CANCELLED)
     /\ (last'.op \in HotelScopedQueries /\ last'.args[1] \notin Ids(AllHotels))
          => last'.outcome = NotFoundError]_vars

\* A booking whose hotel and client were both deleted has just been
\* confirmed.
C22_Witness ==
  /\ last.op = "confirm_booking" /\ last.outcome = OK
  /\ last.args[1] \in StoredIds
  /\ Stored(last.args[1]).status = CONFIRMED
  /\ Stored(last.args[1]).hotel_id \notin Ids(AllHotels)
  /\ Stored(last.args[1]).client_id \notin Ids(AllClients)

\* ------------------------------------- no capacity or conflict check
\* Valid requests for room 1 of hotel 1, every two of which overlap.
ConflictRequests == {<<1, 1, 1, 1, MaxDate>>, <<1, 1, 2, 2, MaxDate>>, <<1, 1, 1, 1, 2>>}

NextConflict ==
  \/ \E a \in ConflictRequests : add_request(a[1], a[2], a[3], a[4], a[5], NoText)
  \/ \E id \in StoredIds : confirm_booking(id)
  \/ \E id \in StoredIds : cancel_booking(id)

SpecConflict == InitStores /\ [][NextConflict]_vars

\* Bookings a and b are for the same room and share a night.
Conflict(a, b) ==
  a.room_id = b.room_id /\ a.check_in < b.check_out /\ b.check_in < a.check_out

\* The stored bookings, b apart, with status st that conflict with b.
Conflicting(b, st) ==
  {i \in 1..Len(AllBookings) :
     /\ AllBookings[i].id # b.id
     /\ AllBookings[i].status = st
     /\ Conflict(AllBookings[i], b)}

\* C23: add_request with valid arguments is accepted whatever bookings are
\* stored for the same room and dates, and confirm_booking of a stored
\* booking that is not Cancelled is accepted whatever Confirmed bookings
\* overlap it: neither looks at the other bookings.
C23_NoConflictCheck ==
  [][/\ last'.op = "add_request" =>
          /\ last'.outcome = OK
          /\ AllBookings' = Append(AllBookings, last'.ret[1])
     /\ (last'.op = "confirm_booking" /\ last'.args[1] \in StoredIds
           /\ Stored(last'.args[1]).status # CANCELLED) =>
          /\ last'.outcome = OK
          /\ StoredIn(AllBookings', last'.args[1]).status = CONFIRMED]_vars

\* confirm_booking has just succeeded for a booking that another Confirmed
\* booking of the same room overlaps: two such bookings are stored.
C23_Witness ==
  /\ last.op = "confirm_booking" /\ last.outcome = OK
  /\ last.args[1] \in StoredIds
  /\ Stored(last.args[1]).status = CONFIRMED
  /\ Conflicting(Stored(last.args[1]), CONFIRMED) # {}

\* ------------------------------------------------------ sorting clients
SortNames == {<<"a">>, <<"B">>, <<"b">>, <<"a", "B">>}

\* The client collections loaded from storage: ids 1..n in storage order.
SortInputs ==
  UNION {[1..n -> SortNames \X SortNames] : n \in 0..MaxRecords}

InitSort ==
  /\ repoKind \in RepoKinds
  /\ hotels = save_all(repoKind, InitialHotels, "Hotel")
  /\ rooms = save_all(repoKind, InitialRooms, "Room")
  /\ \E f \in SortInputs :
       clients = save_all(repoKind,
                          [i \in 1..Len(f) |-> Client(i, f[i][1], f[i][2], <<"1">>, <<>>)],
                          "Client")
  /\ bookings = <<>>
  /\ last = Result("init", <<>>, OK, "", <<>>)
  /\ issued = [bookings |-> {}, hotels |-> Ids(InitialHotels), clients |-> Ids(AllClients)]
  /\ local = NoLocals

NextSort ==
  \/ sort_clients_by_first_name
  \/ sort_clients_by_last_name

SpecSort == InitSort /\ [][NextSort]_vars

\* The name a sort operation compares.
SortedField(op, c) ==
  IF op = "sort_clients_by_first_name" THEN c.first_name ELSE c.last_name

\* cs is in ascending order of the names of op, compared without case.
Ascending(cs, op) ==
  \A i, j \in 1..Len(cs) :
    i < j => ~ str_lt(lower(SortedField(op, cs[j])), lower(SortedField(op, cs[i])))

\* new holds the elements of old in some order.
Permutation(new, old) ==
  /\ Len(new) = Len(old)
  /\ \E p \in [1..Len(old) -> 1..Len(old)] :
       /\ \A i, j \in 1..Len(old) : i # j => p[i] # p[j]
       /\ \A i \in 1..Len(old) : new[i] = old[p[i]]

DateArgs == {<<1, 2>>, <<1, MaxDate>>, <<2, 2>>, <<2, 1>>}

NextDates ==
  \/ \E d \in DateArgs : add_request(1, 1, 1, d[1], d[2], NoText)
  \/ \E id \in StoredIds : delete_request(id)
  \/ \E id \in StoredIds \cap {1} : update_request_text(id, SomeText)
  \/ \E id \in StoredIds : confirm_booking(id)
  \/ \E id \in StoredIds : cancel_booking(id)

SpecDates == InitStores /\ [][NextDates]_vars

\* C25: every stored booking has check_in < check_out, and no operation
\* changes the dates of a booking that stays stored.
C25_DatesOrdered ==
  [][/\ \A i \in 1..Len(AllBookings') :
          AllBookings'[i].check_in < AllBookings'[i].check_out
     /\ \A i \in 1..Len(AllBookings), j \in 1..Len(AllBookings') :
          AllBookings'[j].id = AllBookings[i].id =>
            /\ AllBookings'[j].check_in = AllBookings[i].check_in
            /\ AllBookings'[j].check_out = AllBookings[i].check_out]_vars

\* A request with check_in = check_out has just been refused, and a stored
\* booking has been confirmed and edited since it was added.
C25_Witness ==
  /\ last.op = "add_request" /\ last.outcome = ValidationError
  /\ last.args[4] = last.args[5]
  /\ \E i \in 1..Len(AllBookings) :
       /\ AllBookings[i].status = CONFIRMED
       /\ AllBookings[i].request_text # <<>>
       /\ AllBookings[i].check_in = 1 /\ AllBookings[i].check_out = MaxDate

\* ------------------------------- what the booking service leaves alone
\* A valid request, one for a missing hotel and one with reversed dates.
ServiceRequests == {<<1, 1, 1, 1, 2>>, <<3, 1, 1, 1, 2>>, <<1, 1, 1, 2, 1>>}

\* A booking id that may be stored and one that never is.
ServiceIds == {1, MaxId + 1}

NextService ==
  \/ \E a \in ServiceRequests : add_request(a[1], a[2], a[3], a[4], a[5], NoText)
  \/ \E id \in ServiceIds : delete_request(id)
  \/ \E id \in ServiceIds : update_request_text(id, SomeText)
  \/ \E id \in ServiceIds : confirm_booking(id)
  \/ \E id \in ServiceIds : cancel_booking(id)
  \/ \E id \in ServiceIds : get_booking(id)
  \/ \E h \in {1, 3} : get_requests_in_period(h, 1, 2)
  \/ \E h \in {1, 3} : get_reserved_places(h, 1, 2)
  \/ \E h \in {1, 3} : get_free_places(h, 1, 2)
  \/ \E id \in ServiceIds : calculate_booking_price(id)
  \/ \E h \in {1, 3} : get_clients_with_bookings(h)

SpecService == InitStores /\ [][NextService]_vars

BookingQueries ==
  {"get_booking", "get_requests_in_period", "get_reserved_places", "get_free_places",
   "calculate_booking_price", "get_clients_with_bookings"}

BookingCommands ==
  {"add_request", "delete_request", "update_request_text", "confirm_booking",
   "cancel_booking"}

\* C26: no operation of the booking service, whether it succeeds or fails,
\* changes the stored hotels, rooms or clients, and its query operations
\* leave the stored bookings unchanged as well.
C26_ReadOnly ==
  [][/\ last'.op \in BookingQueries \cup BookingCommands
     /\ hotels' = hotels /\ rooms' = rooms /\ clients' = clients
     /\ last'.op \in BookingQueries => bookings' = bookings]_vars

\* A query has just returned the client of a Confirmed booking.
C26_Witness ==
  /\ last.op = "get_clients_with_bookings" /\ last.outcome = OK
  /\ Len(last.ret) = 1
  /\ \E i \in 1..Len(AllBookings) : AllBookings[i].status = CONFIRMED
  /\ \E i \in 1..Len(AllBookings) : AllBookings[i].status = PENDING

\* ------------------------------------- ids and number of the bookings
\* The booking collections loaded from storage: Pending bookings with
\* pairwise distinct ids, in any order, leaving room for one more.
CountInputs ==
  UNION {{[i \in 1..n |-> Booking(f[i], 1, 1, 1, 1, 2, PENDING, <<>>)] :
           f \in {g \in [1..n -> 1..(MaxId - 1)] :
                    \A i, j \in 1..n : i # j => g[i] # g[j]}} :
         n \in 0..MaxBookings}

InitCount ==
  /\ repoKind \in RepoKinds
  /\ hotels = save_all(repoKind, InitialHotels, "Hotel")
  /\ rooms = save_all(repoKind, InitialRooms, "Room")
  /\ clients = save_all(repoKind, InitialClients, "Client")
  /\ \E bs \in CountInputs : bookings = save_all(repoKind, bs, "Booking")
  /\ last = Result("init", <<>>, OK, "", <<>>)
  /\ issued = [bookings |-> Ids(AllBookings), hotels |-> Ids(InitialHotels),
               clients |-> Ids(InitialClients)]
  /\ local = NoLocals

NextCount ==
  \/ \E a \in {<<1, 1, 1, 1, 2>>, <<1, 1, 1, 2, 2>>} :
       add_request(a[1], a[2], a[3], a[4], a[5], NoText)
  \/ \E id \in BookingIds : delete_request(id)
  \/ \E id \in {1, MaxId + 1} : update_request_text(id, SomeText)
  \/ \E id \in {1, 2} : confirm_booking(id)
  \/ \E id \in {2, MaxId + 1} : cancel_booking(id)

SpecCount == InitCount /\ [][NextCount]_vars

\* No two stored bookings of bs have the same id.
DistinctIds(bs) == \A i, j \in 1..Len(bs) : i # j => bs[i].id # bs[j].id

\* C27: with one caller, the stored bookings keep pairwise distinct ids, and
\* their number grows by one on a successful add_request, shrinks by one on
\* a successful delete_request and is unchanged by every other call.
C27_DistinctIdsAndCount ==
  [][/\ DistinctIds(AllBookings) => DistinctIds(AllBookings')
     /\ Len(AllBookings') =
          Len(AllBookings)
            + (IF last'.op = "add_request" /\ last'.outcome = OK THEN 1 ELSE 0)
            - (IF last'.op = "delete_request" /\ last'.outcome = OK THEN 1 ELSE 0)]_vars

\* A booking has just been added to a collection whose smallest id is free.
C27_Witness ==
  /\ last.op = "add_request" /\ last.outcome = OK
  /\ Len(AllBookings) = 2
  /\ AllBookings[1].id = 2 /\ AllBookings[2].id = 3

\* ---------------------------- reserved and free rooms share the hotel
\* Requests for rooms 1 and 2 of hotel 1 and room 3 of hotel 2, and one for
\* hotel 1 with room 3, which is a room of hotel 2.
PartitionRequests ==
  {<<1, 1, 1, 1, 2>>, <<1, 2, 2, 2, MaxDate>>, <<2, 3, 1, 1, MaxDate>>, <<1, 3, 1, 1, 2>>}

NextPartition ==
  \/ \E a \in PartitionRequests : add_request(a[1], a[2], a[3], a[4], a[5], NoText)
  \/ \E id \in StoredIds : confirm_booking(id)
  \/ \E h \in {2} : delete_hotel(h)
  \/ add_hotel(<<"H">>, <<"K">>, <<"A">>, <<>>)
  \/ \E h \in {1, 2} : get_reserved_places(h, 1, MaxDate)
  \/ \E h \in {1, 2} : get_free_places(h, 1, MaxDate)

SpecPartition == InitStores /\ [][NextPartition]_vars

\* The ids of the stored rooms of hotel h, and their capacities added up.
HotelRoomIds(h) ==
  {AllRooms[i].id : i \in {j \in 1..Len(AllRooms) : AllRooms[j].hotel_id = h}}

HotelCapacity(h) == sum_capacity(SelectSeq(AllRooms, LAMBDA r : r.hotel_id = h))

\* reserved and free are the room lists of the two queries for hotel h.
Partitioned(reserved, free, free_total, h) ==
  /\ Ids(reserved) \cap Ids(free) = {}
  /\ Ids(reserved) \cup Ids(free) = HotelRoomIds(h)
  /\ DistinctIds(reserved) /\ DistinctIds(free)
  /\ free_total + sum_capacity(reserved) = HotelCapacity(h)

\* C28: for every stored hotel and every window, when get_reserved_places
\* and get_free_places both succeed, their room lists have no room id in
\* common and together hold exactly the rooms of the hotel, so the free
\* total plus the capacities of the reserved rooms is the capacity of the
\* hotel's rooms; a recorded call returns these lists.
C28_ReservedFreePartition ==
  /\ \A h \in Ids(AllHotels), s \in Dates, e \in Dates :
       LET hotel == ensure_hotel_exists(h)
           r == reserved_places(hotel, AllBookings, h, s, e)
           f == free_places(hotel, AllRooms, r, h)
       IN /\ (r.outcome = OK /\ f.outcome = OK) =>
               Partitioned(r.ret[2], f.ret[2], f.ret[1], h)
          /\ (last.op = "get_reserved_places" /\ last.args = <<h, s, e>>)
               => (last.outcome = r.outcome /\ last.ret = r.ret)
          /\ (last.op = "get_free_places" /\ last.args = <<h, s, e>>)
               => (last.outcome = f.outcome /\ last.ret = f.ret)
  /\ \A i \in 1..Len(AllBookings) :
       \A j \in 1..Len(AllRooms) :
         AllRooms[j].id = AllBookings[i].room_id =>
           AllRooms[j].hotel_id = AllBookings[i].hotel_id

\* get_free_places has just returned room 2 of hotel 1 as the free one while
\* room 1 has a Confirmed booking in the window.
C28_Witness ==
  /\ last.op = "get_free_places" /\ last.outcome = OK /\ last.args[1] = 1
  /\ Ids(last.ret[2]) = {2} /\ last.ret[1] = 3
  /\ \E i \in 1..Len(AllBookings) :
       AllBookings[i].room_id = 1 /\ AllBookings[i].status = CONFIRMED
  /\ \E i \in 1..Len(AllBookings) :
       AllBookings[i].room_id = 3 /\ AllBookings[i].status = CONFIRMED

\* --------------------------------- windows with start_date >= end_date
\* Stays in room 1 of hotel 1 around day 2: across it, from it and up to it.
WindowRequests == {<<1, MaxDate>>, <<2, MaxDate>>, <<1, 2>>}

\* Query windows that are empty or reversed.
Windows == {<<2, 2>>, <<MaxDate, 1>>, <<MaxDate, 2>>}

NextWindow ==
  \/ \E d \in WindowRequests : add_request(1, 1, 1, d[1], d[2], NoText)
  \/ \E id \in StoredIds : confirm_booking(id)
  \/ \E w \in Windows : get_requests_in_period(1, w[1], w[2])
  \/ \E w \in Windows : get_reserved_places(1, w[1], w[2])
  \/ \E w \in Windows : get_free_places(1, w[1], w[2])

SpecWindow == InitStores /\ [][NextWindow]_vars

\* The stored bookings of hotel h with status st that the window selects.
Selected(h, st, s, e) ==
  SelectSeq(AllBookings,
            LAMBDA b : b.hotel_id = h /\ b.status = st /\ b.check_in < e /\ b.check_out > s)

RoomIdsOf(bs) == {bs[i].room_id : i \in 1..Len(bs)}

\* C29: a window with start >= end is not refused: the three period queries
\* succeed for a stored hotel and select a booking iff check_in < end and
\* check_out > start; with start = end = d these are the bookings with
\* check_in < d < check_out, a booking that begins on d not being one.
C29_WindowNotValidated ==
  /\ \A s, e \in Dates :
       s >= e =>
         LET hotel == ensure_hotel_exists(1)
             q == requests_in_period(hotel, AllBookings, 1, s, e)
             r == reserved_places(hotel, AllBookings, 1, s, e)
             f == free_places(hotel, AllRooms, r, 1)
         IN /\ q.outcome = OK /\ r.outcome = OK /\ f.outcome = OK
            /\ q.ret = Selected(1, PENDING, s, e)
            /\ Ids(r.ret[2]) = RoomIdsOf(Selected(1, CONFIRMED, s, e))
            /\ Ids(f.ret[2]) = HotelRoomIds(1) \ RoomIdsOf(Selected(1, CONFIRMED, s, e))
            /\ s = e =>
                 \A i \in 1..Len(AllBookings) :
                   LET b == AllBookings[i]
                   IN /\ (b.status = PENDING =>
                            ((\E k \in 1..Len(q.ret) : q.ret[k] = b)
                               <=> (b.check_in < s /\ s < b.check_out)))
                      /\ (b.status = CONFIRMED =>
                            (b.room_id \in Ids(r.ret[2])
                               <=> \E j \in 1..Len(AllBookings) :
                                     /\ AllBookings[j].status = CONFIRMED
                                     /\ AllBookings[j].room_id = b.room_id
                                     /\ AllBookings[j].check_in < s
                                     /\ s < AllBookings[j].check_out))
            /\ (last.op = "get_requests_in_period" /\ last.args = <<1, s, e>>)
                 => (last.outcome = OK /\ last.ret = q.ret)
            /\ (last.op = "get_reserved_places" /\ last.args = <<1, s, e>>)
                 => (last.outcome = OK /\ last.ret = r.ret)
            /\ (last.op = "get_free_places" /\ last.args = <<1, s, e>>)
                 => (last.outcome = OK /\ last.ret = f.ret)

\* get_requests_in_period for the window [2, 2) has just returned the stay
\* across day 2 and not the one that begins on day 2.
C29_Witness ==
  /\ last.op = "get_requests_in_period" /\ last.args = <<1, 2, 2>>
  /\ last.outcome = OK
  /\ Len(last.ret) = 1 /\ last.ret[1].check_in = 1 /\ last.ret[1].check_out = MaxDate
  /\ \E i \in 1..Len(AllBookings) :
       AllBookings[i].status = PENDING /\ AllBookings[i].check_in = 2

====
